---- MODULE Spec2Model ----
(***************************************************************************)
(* The evolutionary search engine: TaskManagerAgent (the generation loop), *)
(* EvaluatorAgent.evaluate_program, SelectionControllerAgent and the       *)
(* InMemoryDatabaseAgent, as one state machine.                            *)
(*                                                                         *)
(* Program objects live on a heap (a sequence of Program records, a        *)
(* reference is an index): populations, task arguments and the database    *)
(* hold references, as the Python lists and the dict do, so that an        *)
(* in-place update by evaluate_program is seen through every alias.        *)
(* Floats are fixed-point numbers with four decimals (One is 1.0).         *)
(*                                                                         *)
(* More specifications look inside one collaborator each: SpecSandbox      *)
(* follows one evaluate_program call through _execute_code_safely (the     *)
(* temporary directory, the sandbox process, its children, the timeout),   *)
(* SpecPatch one _apply_diff call block by block, SpecGenerate one         *)
(* generate_code call request by request; SpecSelection applies            *)
(* select_parents and select_survivors to pools of programs, SpecDatabase  *)
(* save_program and get_best_programs to a store.                          *)
(***************************************************************************)
EXTENDS Integers, Sequences, FiniteSets, TLC

\* ---------------------------------------------------------------- bounds
MaxPopulationSize == 2
MaxGenerations == 2
MaxTests == 2
MaxHarnessPopulation == 2
\* the Program objects of one run: once that many exist, the generative
\* service's further answers leave the parent's code as it is
MaxPrograms == 4
\* _apply_diff on its own: the length of the parent code, of a SEARCH and of a
\* REPLACE block as the pattern captures them, and the number of blocks
MaxCodeLen == 3
MaxSearchLen == 2
MaxReplaceLen == 1
MaxBlocks == 2
\* programs in the pool select_parents and select_survivors are called with
MaxPool == 3
\* the largest configured ELITISM_COUNT looked at
MaxElitism == 2

\* ------------------------------------------------------- program constants
One == 10000
Half == 5000
Epsilon == 1
Inf == 1000000
ELITISM_COUNT == 1
API_MAX_RETRIES == 5
API_RETRY_DELAY_SECONDS == 10

\* Texts the generative service can answer with.  "bad" does not parse,
\* "c1" and "c2" are two different programs that do, RawDiff is an answer
\* that still carries the SEARCH/REPLACE markers, ErrorText starts "# Error:".
RawDiff == "<<<<<<< SEARCH ======= >>>>>>> REPLACE"
ErrorText == "# Error: no code"
Codes == {"bad", "c1", "c2"}
Texts == Codes \cup {"", RawDiff, ErrorText}

VARIABLES
    population_size,        \* self.population_size
    num_generations,        \* self.num_generations
    num_parents_to_select,  \* self.num_parents_to_select
    num_tests,              \* len(task.input_output_examples)
    heap,                   \* the Program objects
    database,               \* InMemoryDatabaseAgent._programs, in insertion order
    pc,                     \* the orchestrator's position
    gen,                    \* the loop variable of manage_evolutionary_cycle
    initial_population,     \* initialize_population's list
    current_population,
    parents,
    offspring_population,
    generation_tasks,       \* the generate_offspring coroutines handed to gather
    eval_caller,            \* who called evaluate_population
    eval_population,        \* evaluate_population's argument
    evaluation_tasks,       \* the evaluate_program coroutines handed to gather
    evaluated_programs,     \* evaluate_population's result list
    loop_i,                 \* index of the result loop that is running
    final_best,             \* what manage_evolutionary_cycle returns
    ev_pc,                  \* position of the evaluate_program call that is followed
    proc,                   \* the sandbox process of that call
    children,               \* a process the candidate's code started
    temp_dir,               \* the files in the temporary directory, None if no directory
    execution,              \* what _execute_code_safely returned
    patch_pc,               \* position of the _apply_diff call that is followed
    parent_code,            \* _apply_diff's parent_code
    diff_blocks,            \* the SEARCH/REPLACE blocks finditer yields
    block_i,                \* how many blocks the loop has handled
    modified_code,          \* _apply_diff's modified_code
    elitism_count,          \* SelectionControllerAgent.elitism_count
    survivors,              \* what the followed select_survivors call returned
    query,                  \* the arguments of the followed get_best_programs call
    generate_pc,            \* position of the generate_code call that is followed
    attempt,                \* generate_code's loop variable
    delay,                  \* generate_code's delay, in seconds
    retries,                \* generate_code's retries
    responses,              \* how each request sent so far ended
    sleeps                  \* the arguments of the asyncio.sleep calls so far

vars == <<population_size, num_generations, num_parents_to_select, num_tests,
          heap, database, pc, gen, initial_population, current_population,
          parents, offspring_population, generation_tasks, eval_caller,
          eval_population, evaluation_tasks, evaluated_programs, loop_i,
          final_best, ev_pc, proc, children, temp_dir, execution,
          patch_pc, parent_code, diff_blocks, block_i, modified_code,
          elitism_count, survivors, query, generate_pc, attempt, delay,
          retries, responses, sleeps>>

\* the variables of the followed evaluate_program call
sandbox_vars == <<ev_pc, proc, children, temp_dir, execution>>

\* the variables of the followed _apply_diff call
patch_vars == <<patch_pc, parent_code, diff_blocks, block_i, modified_code>>

\* the orchestrator's variables other than the configuration and the heap
orchestrator_vars == <<database, pc, gen, initial_population, current_population,
                       parents, offspring_population, generation_tasks,
                       eval_caller, eval_population, evaluation_tasks,
                       evaluated_programs, loop_i, final_best>>

\* the same without the orchestrator's position
orchestrator_vars_but_pc == <<database, gen, initial_population, current_population,
                              parents, offspring_population, generation_tasks,
                              eval_caller, eval_population, evaluation_tasks,
                              evaluated_programs, loop_i, final_best>>

config_vars == <<population_size, num_generations, num_parents_to_select, num_tests,
                 elitism_count>>

\* the variables of the followed select_survivors and get_best_programs calls
call_vars == <<survivors, query>>

\* the variables of the followed generate_code call
generator_vars == <<generate_pc, attempt, delay, retries, responses, sleeps>>

\* ------------------------------------------------------------ data model

EmptyDict == [k \in {} |-> 0]

None == <<>>

\* dict.get(key, default)
Get(d, key, default) == IF key \in DOMAIN d THEN d[key] ELSE default

\* d[key] = value
DictSet(d, key, value) == (key :> value) @@ d

\* Program(id=..., code=..., generation=..., parent_id=..., status=...)
Program(id, code, generation, parent_id, status) ==
    [id |-> id, code |-> code, fitness_scores |-> EmptyDict,
     generation |-> generation, parent_id |-> parent_id,
     errors |-> <<>>, status |-> status]

\* f"{task.id}_gen0_prog{i}"
InitialId(i) == <<0, "prog", i>>

\* f"{task.id}_gen{gen}_child{len(offspring_population)}"
ChildId(g, offspring) == <<g, "child", Len(offspring)>>

\* One diagnostic string: its kind and the evaluation that produced it.
Diagnostic(kind, ref) == [kind |-> kind, of |-> ref]

\* ---------------------------------------------------------- sequences

Range(s) == {s[i] : i \in 1..Len(s)}

Take(s, n) == SubSeq(s, 1, IF n < Len(s) THEN n ELSE Len(s))

\* The subsequence of s at the indices idx, in order.
SubSeqAt(s, idx) ==
    [p \in 1..Cardinality(idx) |->
        s[CHOOSE i \in idx : Cardinality({j \in idx : j <= i}) = p]]

\* Lexicographic > on tuples of numbers of one length (Python's tuple order).
TupleGt(a, b) ==
    \E k \in 1..Len(a) : a[k] > b[k] /\ \A j \in 1..(k - 1) : a[j] = b[j]

\* sorted(s, key=..., reverse=...): Python's sort is stable, also with
\* reverse=True.  Before(x, y) says that x's key puts it strictly before y.
StableSort(s, Before(_, _)) ==
    LET n == Len(s)
        Rank(i) == Cardinality({j \in 1..n : Before(s[j], s[i])})
                   + Cardinality({j \in 1..(i - 1) :
                                     ~Before(s[i], s[j]) /\ ~Before(s[j], s[i])})
                   + 1
    IN [p \in 1..n |-> s[CHOOSE i \in 1..n : Rank(i) = p]]

\* the loop without its "if program.id not in seen" test
KeepRepeatedIds(h, s) == s

\* The loop "for program in sorted: if id not in seen: append; seen.add(id)".
DedupById(h, s) ==
    SubSeqAt(s, {i \in 1..Len(s) : \A j \in 1..(i - 1) : h[s[j]].id # h[s[i]].id})

\* ---------------------------------------------------------- database

\* InMemoryDatabaseAgent.save_program: self._programs[program.id] = program
SaveProgram(db, h, ref) ==
    IF \E k \in 1..Len(db) : db[k].id = h[ref].id
    THEN [k \in 1..Len(db) |->
             IF db[k].id = h[ref].id THEN [id |-> db[k].id, ref |-> ref] ELSE db[k]]
    ELSE Append(db, [id |-> h[ref].id, ref |-> ref])

\* get_best_programs sorting every objective as its fallback branch does:
\* sorted(relevant_progs, key=sort_key, reverse=effective_reverse)
GetBestProgramsEffectiveReverse(db, h, limit, objective, sort_order) ==
    LET all_progs == [k \in 1..Len(db) |-> db[k].ref]
        sort_key(r) ==
            IF objective = "correctness"
            THEN Get(h[r].fitness_scores, "correctness", -One)
            ELSE IF objective = "runtime_ms"
            THEN IF sort_order = "desc"
                 THEN -Get(h[r].fitness_scores, "runtime_ms", Inf)
                 ELSE Get(h[r].fitness_scores, "runtime_ms", Inf)
            ELSE 0
        effective_reverse ==
            IF objective = "correctness" THEN sort_order = "desc"
            ELSE IF objective = "runtime_ms" THEN sort_order = "asc"
            ELSE FALSE
        ByKey(x, y) == IF effective_reverse THEN sort_key(x) > sort_key(y)
                       ELSE sort_key(x) < sort_key(y)
    IN IF db = <<>> THEN <<>> ELSE Take(StableSort(all_progs, ByKey), limit)

\* InMemoryDatabaseAgent.get_best_programs
GetBestPrograms(db, h, limit, objective, sort_order) ==
    LET all_progs == [k \in 1..Len(db) |-> db[k].ref]
        correctness(r) == Get(h[r].fitness_scores, "correctness", -One)
        runtime(r) == Get(h[r].fitness_scores, "runtime_ms", Inf)
        Desc(key(_), x, y) == key(x) > key(y)
        Asc(key(_), x, y) == key(x) < key(y)
        ByRuntime(x, y) == IF sort_order = "desc" THEN Desc(runtime, x, y)
                           ELSE Asc(runtime, x, y)
        ByCorrectness(x, y) == IF sort_order = "desc" THEN Desc(correctness, x, y)
                               ELSE Asc(correctness, x, y)
        \* any other objective: sort_key returns 0 for every program
        ByNothing(x, y) == FALSE
        sorted_programs ==
            IF objective = "runtime_ms" THEN StableSort(all_progs, ByRuntime)
            ELSE IF objective = "correctness" THEN StableSort(all_progs, ByCorrectness)
            ELSE StableSort(all_progs, ByNothing)
    IN IF db = <<>> THEN <<>> ELSE Take(sorted_programs, limit)

\* ---------------------------------------------------------- selection

ParentKey(h, r) ==
    <<Get(h[r].fitness_scores, "correctness", 0),
      -Get(h[r].fitness_scores, "runtime_ms", Inf)>>

\* the survivor key as it orders without "reverse=True": worst first
SurvivorKeyAscending(h, r) ==
    <<-Get(h[r].fitness_scores, "correctness", 0),
      Get(h[r].fitness_scores, "runtime_ms", Inf),
      h[r].generation>>

SurvivorKey(h, r) ==
    <<Get(h[r].fitness_scores, "correctness", 0),
      -Get(h[r].fitness_scores, "runtime_ms", Inf),
      -h[r].generation>>

RECURSIVE SumWeights(_, _)
SumWeights(h, s) ==
    IF s = <<>> THEN 0
    ELSE Get(h[Head(s)].fitness_scores, "correctness", 0) + Epsilon
         + SumWeights(h, Tail(s))

\* random.sample(candidates, n): n different positions, in any order
Samples(candidates, n) ==
    {[p \in 1..n |-> candidates[f[p]]] :
        f \in {g \in [1..n -> 1..Len(candidates)] :
                  \A a, b \in 1..n : a # b => g[a] # g[b]}}

\* n roulette draws: random.uniform(0, total) can land on every candidate,
\* each has a weight of at least Epsilon; draws are independent.
RouletteDraws(candidates, n) ==
    {[p \in 1..n |-> candidates[f[p]]] : f \in [1..n -> 1..Len(candidates)]}

\* the elitism loop with its "break" taken before the first append
EliteCandidatesNone(h, sorted_population, self_elitism_count) == <<>>

\* select_parents, "1. Elitism": the first elitism_count programs of the
\* sorted population, a repeated id skipped
EliteCandidates(h, sorted_population, self_elitism_count) ==
    Take(DedupById(h, sorted_population), self_elitism_count)

\* SelectionControllerAgent.select_parents: the set of lists it can return.
SelectParents(h, population, num_parents, self_elitism_count) ==
    LET ByKey(x, y) == TupleGt(ParentKey(h, x), ParentKey(h, y))
        sorted_population == StableSort(population, ByKey)
        elite_candidates == EliteCandidates(h, sorted_population, self_elitism_count)
        seen_ids == {h[r].id : r \in Range(elite_candidates)}
        remaining_slots == num_parents - Len(elite_candidates)
        roulette_candidates ==
            SelectSeq(sorted_population, LAMBDA r : h[r].id \notin seen_ids)
        total_fitness == SumWeights(h, roulette_candidates)
        num_to_select_randomly ==
            IF remaining_slots < Len(roulette_candidates)
            THEN remaining_slots ELSE Len(roulette_candidates)
    IN IF population = <<>> THEN {<<>>}
       ELSE IF num_parents = 0 THEN {<<>>}
       ELSE IF num_parents > Len(population) THEN {population}
       ELSE IF remaining_slots <= 0 THEN {elite_candidates}
       ELSE IF roulette_candidates = <<>> THEN {elite_candidates}
       ELSE IF total_fitness <= Epsilon * Len(roulette_candidates)
       THEN {elite_candidates \o s :
                s \in Samples(roulette_candidates, num_to_select_randomly)}
       ELSE {elite_candidates \o s :
                s \in RouletteDraws(roulette_candidates, remaining_slots)}

\* select_survivors without the cut of its loop at population_size
\* ("if len(survivors) < population_size ... else: break")
SelectSurvivorsTakesAll(h, current, offspring, size) ==
    LET combined_population == current \o offspring
        ByKey(x, y) == TupleGt(SurvivorKey(h, x), SurvivorKey(h, y))
        sorted_combined == StableSort(combined_population, ByKey)
    IN IF combined_population = <<>> THEN <<>>
       ELSE DedupById(h, sorted_combined)

\* SelectionControllerAgent.select_survivors
SelectSurvivors(h, current, offspring, size) ==
    LET combined_population == current \o offspring
        ByKey(x, y) == TupleGt(SurvivorKey(h, x), SurvivorKey(h, y))
        sorted_combined == StableSort(combined_population, ByKey)
    IN IF combined_population = <<>> THEN <<>>
       ELSE Take(DedupById(h, sorted_combined), size)

\* ---------------------------------------------------------- evaluator

\* EvaluatorAgent._check_syntax: does ast.parse accept the code
SyntaxOk(code) == code # "bad"

\* What the harness reports for one test case: the call returned the expected
\* value, returned another value, raised, or left no entry.
CaseOutcomes == {"pass", "wrong", "error", "missing"}

\* The parsed result records a sandbox run can deliver for n test cases.
ExecutionResults(n) == [1..n -> CaseOutcomes]

\* EvaluatorAgent._assess_correctness: (correctness, passed_tests, total_tests)
AssessCorrectness(execution_results, total_tests) ==
    LET passed_tests ==
            Cardinality({i \in 1..total_tests : execution_results[i] = "pass"})
    IN IF total_tests = 0 THEN <<One, 0, 0>>
       ELSE <<(passed_tests * One) \div total_tests, passed_tests, total_tests>>

\* evaluate_program without the line that gives fitness_scores its defaults:
\* only the branches that assign correctness themselves define it
EvaluateProgramBeginNoDefaults(p, ref, n_tests) ==
    LET reset == [p EXCEPT !.status = "evaluating", !.errors = <<>>]
    IN IF ~SyntaxOk(p.code)
       THEN [reset EXCEPT !.errors = <<Diagnostic("SyntaxError", ref)>>,
                          !.fitness_scores = DictSet(@, "correctness", 0),
                          !.status = "failed_evaluation"]
       ELSE IF n_tests = 0
       THEN [reset EXCEPT !.fitness_scores = DictSet(@, "correctness", Half),
                          !.status = "evaluated"]
       ELSE reset

\* evaluate_program up to its first suspension: the reset of the record, the
\* static check, and the branch on task.input_output_examples.
EvaluateProgramBegin(p, ref, n_tests) ==
    LET reset == [p EXCEPT !.status = "evaluating", !.errors = <<>>,
                           !.fitness_scores =
                               DictSet(DictSet(EmptyDict, "correctness", 0),
                                       "runtime_ms", Inf)]
    IN IF ~SyntaxOk(p.code)
       THEN [reset EXCEPT !.errors = <<Diagnostic("SyntaxError", ref)>>,
                          !.status = "failed_evaluation"]
       ELSE IF n_tests = 0
       THEN [reset EXCEPT !.fitness_scores = DictSet(@, "correctness", Half),
                          !.status = "evaluated"]
       ELSE reset

\* evaluate_program without the "return program" of the syntax-error branch
EvaluateProgramSuspendsAfterSyntaxError(p, n_tests) == n_tests > 0

\* evaluate_program awaits _execute_code_safely unless it returned already
EvaluateProgramSuspends(p, n_tests) == SyntaxOk(p.code) /\ n_tests > 0

\* evaluate_program after _execute_code_safely returned an error string
EvaluateProgramExecutionError(p, ref, kind) ==
    [p EXCEPT !.errors = Append(@, Diagnostic(kind, ref)),
              !.fitness_scores = DictSet(@, "correctness", 0),
              !.status = "failed_evaluation"]

\* evaluate_program after _execute_code_safely returned the result record
EvaluateProgramScore(p, ref, execution_results, n_tests) ==
    LET a == AssessCorrectness(execution_results, n_tests)
        scored == [p EXCEPT !.fitness_scores =
                       DictSet(DictSet(DictSet(@, "correctness", a[1]),
                                       "passed_tests", a[2]),
                               "total_tests", a[3])]
        with_errors == IF a[1] < One
                       THEN [scored EXCEPT !.errors =
                                Append(@, Diagnostic("FailedTests", ref))]
                       ELSE scored
    IN [with_errors EXCEPT !.status =
           IF with_errors.errors = <<>> THEN "evaluated" ELSE "failed_evaluation"]

\* ------------------------------------------------- _execute_code_safely

\* EVALUATION_TIMEOUT_SECONDS, the default timeout of _execute_code_safely
EVALUATION_TIMEOUT_SECONDS == 800

\* elapsed milliseconds the harness can measure for one test case
CaseRuntimes == {6, 12}

\* What the generated harness has in "results" after its loop over the test
\* cases: per case the outcome and the elapsed time it measured.
HarnessRuns(n) ==
    [test_outputs : [1..n -> CaseOutcomes], runtime_ms : [1..n -> CaseRuntimes]]

RECURSIVE SumOver(_, _)
SumOver(f, idx) ==
    IF idx = {} THEN 0
    ELSE LET i == CHOOSE x \in idx : TRUE IN f[i] + SumOver(f, idx \ {i})

\* The harness's final_output: "average_runtime_ms" is there only if some
\* call returned (num_tests > 0), and is total_execution_time / num_tests
\* over the calls that returned.
FinalOutput(run) ==
    LET returned == {i \in DOMAIN run.test_outputs :
                        run.test_outputs[i] \in {"pass", "wrong"}}
    IN [test_outputs |-> run.test_outputs,
        average_runtime_ms |->
            IF returned = {} THEN None
            ELSE <<SumOver(run.runtime_ms, returned) \div Cardinality(returned)>>]

NoOutput == [test_outputs |-> <<>>, average_runtime_ms |-> None]

\* no process, no temporary directory, no return value yet
NoProcess == [state |-> "none", returncode |-> 0, stdout |-> "none", output |-> NoOutput]
NoTempDir == [exists |-> FALSE, files |-> {}]
NoExecution == [error |-> "", results |-> NoOutput]

\* How a sandbox process can end by itself: its exit code, and on its stdout
\* nothing, text that is not JSON, or the harness's record (a process that
\* exits non-zero may have printed any of them before).
ProcessEndings(n) ==
    {[state |-> "exited", returncode |-> rc, stdout |-> out, output |-> NoOutput] :
        rc \in {0, 1}, out \in {"none", "garbage"}}
    \cup {[state |-> "exited", returncode |-> rc, stdout |-> "record",
            output |-> FinalOutput(run)] : rc \in {0, 1}, run \in HarnessRuns(n)}

\* _execute_code_safely without the test of proc.returncode: whatever the
\* process printed is examined
ExecuteCodeSafelyReturnIgnoresExitCode(p) ==
    IF p.stdout = "none"
    THEN [error |-> "ExecutionError:no_output", results |-> NoOutput]
    ELSE IF p.stdout = "garbage"
    THEN [error |-> "ExecutionError:json", results |-> NoOutput]
    ELSE [error |-> "", results |-> p.output]

\* _execute_code_safely after communicate() returned: the pair it returns
ExecuteCodeSafelyReturn(p) ==
    IF p.returncode # 0
    THEN [error |-> "ExecutionError:exit", results |-> NoOutput]
    ELSE IF p.stdout = "none"
    THEN [error |-> "ExecutionError:no_output", results |-> NoOutput]
    ELSE IF p.stdout = "garbage"
    THEN [error |-> "ExecutionError:json", results |-> NoOutput]
    ELSE [error |-> "", results |-> p.output]

\* _execute_code_safely's "except asyncio.TimeoutError" and "except Exception"
ExecuteCodeSafelyTimeout == [error |-> "ExecutionError:timeout", results |-> NoOutput]
ExecuteCodeSafelyUnexpected == [error |-> "ExecutionError:unexpected", results |-> NoOutput]

\* The "finally" of _execute_code_safely: os.remove(temp_file_path), then
\* os.rmdir(temp_dir), which fails on a directory that is not empty; the
\* failure is logged and nothing else is removed.
CleanupTemp(t) ==
    LET removed == t.files \ {"temp_script.py"}
    IN IF removed = {} THEN [exists |-> FALSE, files |-> {}]
       ELSE [exists |-> TRUE, files |-> removed]

\* ---------------------------------------------------------- orchestrator

\* generate_offspring without its "if generated_code == parent.code" test
GenerateOffspringKeepsUnchanged(h, parent, generation_num, child_id, generated_code) ==
    IF generated_code \in {"", " "} THEN None
    ELSE IF generated_code = RawDiff THEN None
    ELSE IF generated_code = ErrorText THEN None
    ELSE <<[Program(child_id, generated_code, generation_num, h[parent].id,
                    "unevaluated") EXCEPT !.parent_id = h[parent].id]>>

\* generate_offspring after code_generator.execute returned generated_code
GenerateOffspring(h, parent, generation_num, child_id, generated_code) ==
    IF generated_code \in {"", " "} THEN None
    ELSE IF generated_code = h[parent].code THEN None
    ELSE IF generated_code = RawDiff THEN None
    ELSE IF generated_code = ErrorText THEN None
    ELSE <<[Program(child_id, generated_code, generation_num, h[parent].id,
                    "unevaluated") EXCEPT !.parent_id = h[parent].id]>>

\* the loop with one generation too many: range(1, num_generations + 2)
LoopContinuesOffByOne(g, n) == g <= n

\* "for gen in range(1, self.num_generations + 1)": is there a next value
LoopContinues(g, n) == g < n

\* "continue" written where the code has "break": on to the next generation
AfterNoParentsContinue == "for_gen"

\* where "if not parents: ... break" goes
AfterNoParents == "final"

\* where "No programs in current population after survival selection ... break" goes
AfterNoSurvivors == "final"

\* asyncio.wait(..., return_when=FIRST_COMPLETED) in place of gather: returns
\* as soon as one task has returned or raised
GatherFirstCompleted(tasks) ==
    tasks = <<>> \/ \E k \in 1..Len(tasks) : tasks[k].state \in {"returned", "raised"}

\* "await asyncio.gather(*tasks, return_exceptions=True)" returns when every
\* task has returned or raised
GatherComplete(tasks) ==
    \A k \in 1..Len(tasks) : tasks[k].state \in {"returned", "raised"}

\* the tasks evaluate_population creates: one per program that is not "evaluated"
EvaluationTasks(h, population) ==
    LET dispatched == SelectSeq(population, LAMBDA r : h[r].status # "evaluated")
    IN [k \in 1..Len(dispatched) |-> [prog |-> dispatched[k], state |-> "created"]]

\* the result loop reading "original_program = population[0]"
OriginalProgramFirst(population, tasks, i) == population[1]

\* "original_program = population[i]" in evaluate_population's result loop
OriginalProgram(population, tasks, i) == population[i]

\* the tasks of one generation: num_offspring_per_parent per parent
GenerationTasks(ps, parent_list, g, offspring) ==
    LET num_offspring_per_parent == (ps + Len(parent_list) - 1) \div Len(parent_list)
    IN [t \in 1..(Len(parent_list) * num_offspring_per_parent) |->
           [parent |-> parent_list[((t - 1) \div num_offspring_per_parent) + 1],
            child_id |-> ChildId(g, offspring),
            state |-> "pending",
            result |-> None]]

\* no evaluate_program call is followed step by step
SandboxIdle ==
    /\ ev_pc = "idle"
    /\ proc = NoProcess
    /\ children = "none"
    /\ temp_dir = NoTempDir
    /\ execution = NoExecution

\* no _apply_diff call is followed step by step
PatchIdle ==
    /\ patch_pc = "idle"
    /\ parent_code = <<>>
    /\ diff_blocks = <<>>
    /\ block_i = 0
    /\ modified_code = <<>>

\* no select_survivors or get_best_programs call is followed on its own
NoQuery == [limit |-> 0, objective |-> "none", sort_order |-> "none"]

CallIdle ==
    /\ survivors = <<>>
    /\ query = NoQuery

\* no generate_code call is followed step by step
GeneratorIdle ==
    /\ generate_pc = "idle"
    /\ attempt = 0
    /\ delay = 0
    /\ retries = 0
    /\ responses = <<>>
    /\ sleeps = <<>>

Init ==
    /\ population_size \in 0..MaxPopulationSize
    /\ num_generations \in 0..MaxGenerations
    /\ num_parents_to_select = population_size \div 2
    /\ num_tests \in 0..MaxTests
    /\ heap = <<>>
    /\ database = <<>>
    /\ pc = "initialize_population"
    /\ gen = 0
    /\ initial_population = <<>>
    /\ current_population = <<>>
    /\ parents = <<>>
    /\ offspring_population = <<>>
    /\ generation_tasks = <<>>
    /\ eval_caller = "none"
    /\ eval_population = <<>>
    /\ evaluation_tasks = <<>>
    /\ evaluated_programs = <<>>
    /\ loop_i = 0
    /\ final_best = <<>>
    /\ elitism_count = ELITISM_COUNT
    /\ SandboxIdle
    /\ PatchIdle
    /\ CallIdle
    /\ GeneratorIdle

\* initialize_population, one iteration up to the save: generate_code returns
InitGenerateCode ==
    /\ pc = "initialize_population"
    /\ Len(initial_population) < population_size
    /\ \E generated_code \in Codes :
          heap' = Append(heap, Program(InitialId(Len(initial_population)),
                                       generated_code, 0, None, "unevaluated"))
    /\ initial_population' = Append(initial_population, Len(heap) + 1)
    /\ pc' = "init_save"
    /\ UNCHANGED <<config_vars, call_vars, generator_vars, sandbox_vars, patch_vars, database, gen, current_population, parents,
                   offspring_population, generation_tasks, eval_caller,
                   eval_population, evaluation_tasks, evaluated_programs, loop_i,
                   final_best>>

\* initialize_population: generate_code raises (retries exhausted, or an
\* unexpected error); nothing catches it up to manage_evolutionary_cycle's caller
InitGenerateCodeRaises ==
    /\ pc = "initialize_population"
    /\ Len(initial_population) < population_size
    /\ pc' = "aborted"
    /\ UNCHANGED <<config_vars, call_vars, generator_vars, sandbox_vars, patch_vars, heap, database, gen, initial_population,
                   current_population, parents, offspring_population,
                   generation_tasks, eval_caller, eval_population,
                   evaluation_tasks, evaluated_programs, loop_i, final_best>>

\* initialize_population without its "await self.database.save_program(program)"
InitSaveProgramSkipped ==
    /\ pc = "init_save"
    /\ pc' = "initialize_population"
    /\ UNCHANGED <<config_vars, call_vars, generator_vars, sandbox_vars, patch_vars, heap, database, gen, initial_population, current_population,
                   parents, offspring_population, generation_tasks, eval_caller,
                   eval_population, evaluation_tasks, evaluated_programs, loop_i,
                   final_best>>

\* initialize_population: await self.database.save_program(program)
InitSaveProgram ==
    /\ pc = "init_save"
    /\ database' = SaveProgram(database, heap,
                               initial_population[Len(initial_population)])
    /\ pc' = "initialize_population"
    /\ UNCHANGED <<config_vars, call_vars, generator_vars, sandbox_vars, patch_vars, heap, gen, initial_population, current_population,
                   parents, offspring_population, generation_tasks, eval_caller,
                   eval_population, evaluation_tasks, evaluated_programs, loop_i,
                   final_best>>

\* initialize_population returns and manage_evolutionary_cycle calls
\* evaluate_population(current_population)
InitReturn ==
    /\ pc = "initialize_population"
    /\ Len(initial_population) = population_size
    /\ eval_population' = initial_population
    /\ initial_population' = <<>>
    /\ eval_caller' = "initial"
    /\ pc' = "evaluate_population"
    /\ UNCHANGED <<config_vars, call_vars, generator_vars, sandbox_vars, patch_vars, heap, database, gen, current_population, parents,
                   offspring_population, generation_tasks, evaluation_tasks,
                   evaluated_programs, loop_i, final_best>>

\* evaluate_population up to "await asyncio.gather": the tasks are created
EvaluatePopulation ==
    /\ pc = "evaluate_population"
    /\ evaluation_tasks' = EvaluationTasks(heap, eval_population)
    /\ evaluated_programs' = <<>>
    /\ pc' = "gather_evaluations"
    /\ UNCHANGED <<config_vars, call_vars, generator_vars, sandbox_vars, patch_vars, heap, database, gen, initial_population,
                   current_population, parents, offspring_population,
                   generation_tasks, eval_caller, eval_population, loop_i,
                   final_best>>

\* The event loop runs the next created task (in creation order) up to its
\* first suspension.
StartEvaluation ==
    \E k \in 1..Len(evaluation_tasks) :
        /\ evaluation_tasks[k].state = "created"
        /\ \A j \in 1..(k - 1) : evaluation_tasks[j].state # "created"
        /\ LET ref == evaluation_tasks[k].prog
           IN /\ heap' = [heap EXCEPT ![ref] = EvaluateProgramBegin(@, ref, num_tests)]
              /\ evaluation_tasks' =
                    [evaluation_tasks EXCEPT ![k].state =
                        IF EvaluateProgramSuspends(heap[ref], num_tests)
                        THEN "running" ELSE "returned"]
        /\ UNCHANGED <<config_vars, call_vars, generator_vars, sandbox_vars, patch_vars, database, pc, gen, initial_population,
                       current_population, parents, offspring_population,
                       generation_tasks, eval_caller, eval_population,
                       evaluated_programs, loop_i, final_best>>

\* a timeout that cancels the whole gather: the sibling tasks that are still
\* running end with CancelledError
SandboxFailsCancelsSiblings ==
    \E k \in 1..Len(evaluation_tasks) :
        /\ evaluation_tasks[k].state = "running"
        /\ LET ref == evaluation_tasks[k].prog
           IN \E kind \in {"ExecutionError:exit", "ExecutionError:timeout"} :
                 /\ heap' = [heap EXCEPT ![ref] =
                                EvaluateProgramExecutionError(@, ref, kind)]
                 /\ evaluation_tasks' =
                       [j \in 1..Len(evaluation_tasks) |->
                           IF j = k
                           THEN [evaluation_tasks[j] EXCEPT !.state = "returned"]
                           ELSE IF kind = "ExecutionError:timeout"
                                   /\ evaluation_tasks[j].state = "running"
                           THEN [evaluation_tasks[j] EXCEPT !.state = "raised"]
                           ELSE evaluation_tasks[j]]
        /\ UNCHANGED <<config_vars, call_vars, generator_vars, sandbox_vars, patch_vars, database, pc, gen, initial_population,
                       current_population, parents, offspring_population,
                       generation_tasks, eval_caller, eval_population,
                       evaluated_programs, loop_i, final_best>>

\* A sandbox run ends with a process-level failure (non-zero exit, no or
\* unparsable output) or with a timeout: _execute_code_safely returns an error
SandboxFails ==
    \E k \in 1..Len(evaluation_tasks) :
        /\ evaluation_tasks[k].state = "running"
        /\ LET ref == evaluation_tasks[k].prog
           IN \E kind \in {"ExecutionError:exit", "ExecutionError:timeout"} :
                 heap' = [heap EXCEPT ![ref] =
                             EvaluateProgramExecutionError(@, ref, kind)]
        /\ evaluation_tasks' = [evaluation_tasks EXCEPT ![k].state = "returned"]
        /\ UNCHANGED <<config_vars, call_vars, generator_vars, sandbox_vars, patch_vars, database, pc, gen, initial_population,
                       current_population, parents, offspring_population,
                       generation_tasks, eval_caller, eval_population,
                       evaluated_programs, loop_i, final_best>>

\* A sandbox run delivers its result record and evaluate_program scores it
SandboxReturns ==
    \E k \in 1..Len(evaluation_tasks) :
        /\ evaluation_tasks[k].state = "running"
        /\ LET ref == evaluation_tasks[k].prog
           IN \E execution_results \in ExecutionResults(num_tests) :
                 heap' = [heap EXCEPT ![ref] =
                             EvaluateProgramScore(@, ref, execution_results, num_tests)]
        /\ evaluation_tasks' = [evaluation_tasks EXCEPT ![k].state = "returned"]
        /\ UNCHANGED <<config_vars, call_vars, generator_vars, sandbox_vars, patch_vars, database, pc, gen, initial_population,
                       current_population, parents, offspring_population,
                       generation_tasks, eval_caller, eval_population,
                       evaluated_programs, loop_i, final_best>>

\* evaluate_program raises (the temporary directory or file cannot be created,
\* the result record has an unexpected shape): the program stays as it is
EvaluationRaises ==
    \E k \in 1..Len(evaluation_tasks) :
        /\ evaluation_tasks[k].state = "running"
        /\ evaluation_tasks' = [evaluation_tasks EXCEPT ![k].state = "raised"]
        /\ UNCHANGED <<config_vars, call_vars, generator_vars, sandbox_vars, patch_vars, heap, database, pc, gen, initial_population,
                       current_population, parents, offspring_population,
                       generation_tasks, eval_caller, eval_population,
                       evaluated_programs, loop_i, final_best>>

\* asyncio.gather returns the results of evaluate_population's tasks
GatherEvaluations ==
    /\ pc = "gather_evaluations"
    /\ GatherComplete(evaluation_tasks)
    /\ pc' = "collect_results"
    /\ UNCHANGED <<config_vars, call_vars, generator_vars, sandbox_vars, patch_vars, heap, database, gen, initial_population,
                   current_population, parents, offspring_population,
                   generation_tasks, eval_caller, eval_population,
                   evaluation_tasks, evaluated_programs, loop_i, final_best>>

\* the result loop without "original_program.status = "failed_evaluation"":
\* the candidate whose task raised keeps the status the task left it with
CollectResultKeepsStatus ==
    /\ pc = "collect_results"
    /\ Len(evaluated_programs) < Len(evaluation_tasks)
    /\ LET i == Len(evaluated_programs) + 1
           original_program == eval_population[i]
           raised == evaluation_tasks[i].state = "raised"
           appended == IF raised THEN original_program ELSE evaluation_tasks[i].prog
           heap1 == IF raised
                    THEN [heap EXCEPT
                            ![original_program].errors =
                                Append(@, Diagnostic("Exception", evaluation_tasks[i].prog))]
                    ELSE heap
       IN /\ heap' = heap1
          /\ evaluated_programs' = Append(evaluated_programs, appended)
          /\ database' = SaveProgram(database, heap1, appended)
    /\ UNCHANGED <<config_vars, call_vars, generator_vars, sandbox_vars, patch_vars, pc, gen, initial_population, current_population,
                   parents, offspring_population, generation_tasks, eval_caller,
                   eval_population, evaluation_tasks, loop_i, final_best>>

\* evaluate_population, one iteration of "for i, result in enumerate(results)"
CollectResult ==
    /\ pc = "collect_results"
    /\ Len(evaluated_programs) < Len(evaluation_tasks)
    /\ LET i == Len(evaluated_programs) + 1
           original_program == OriginalProgram(eval_population, evaluation_tasks, i)
           raised == evaluation_tasks[i].state = "raised"
           appended == IF raised THEN original_program ELSE evaluation_tasks[i].prog
           heap1 == IF raised
                    THEN [heap EXCEPT
                            ![original_program].status = "failed_evaluation",
                            ![original_program].errors =
                                Append(@, Diagnostic("Exception", evaluation_tasks[i].prog))]
                    ELSE heap
       IN /\ heap' = heap1
          /\ evaluated_programs' = Append(evaluated_programs, appended)
          /\ database' = SaveProgram(database, heap1, appended)
    /\ UNCHANGED <<config_vars, call_vars, generator_vars, sandbox_vars, patch_vars, pc, gen, initial_population, current_population,
                   parents, offspring_population, generation_tasks, eval_caller,
                   eval_population, evaluation_tasks, loop_i, final_best>>

\* evaluate_population's frame ends: its argument and its result list go out of
\* scope, and the event loop keeps only the tasks that have not finished
EvaluatePopulationExit ==
    /\ eval_population' = <<>>
    /\ evaluated_programs' = <<>>
    /\ evaluation_tasks' =
          SelectSeq(evaluation_tasks, LAMBDA t : t.state \notin {"returned", "raised"})

\* evaluate_population returns to "current_population = await
\* self.evaluate_population(current_population)"
ReturnInitialEvaluation ==
    /\ pc = "collect_results"
    /\ Len(evaluated_programs) = Len(evaluation_tasks)
    /\ eval_caller = "initial"
    /\ current_population' = evaluated_programs
    /\ pc' = "for_gen"
    /\ EvaluatePopulationExit
    /\ UNCHANGED <<config_vars, call_vars, generator_vars, sandbox_vars, patch_vars, heap, database, gen, initial_population, parents,
                   offspring_population, generation_tasks, eval_caller, loop_i,
                   final_best>>

\* evaluate_population returns to "offspring_population = await
\* self.evaluate_population(offspring_population)"
ReturnOffspringEvaluation ==
    /\ pc = "collect_results"
    /\ Len(evaluated_programs) = Len(evaluation_tasks)
    /\ eval_caller = "offspring"
    /\ offspring_population' = evaluated_programs
    /\ pc' = "select_survivors"
    /\ EvaluatePopulationExit
    /\ UNCHANGED <<config_vars, call_vars, generator_vars, sandbox_vars, patch_vars, heap, database, gen, initial_population,
                   current_population, parents, generation_tasks, eval_caller,
                   loop_i, final_best>>

\* the header of "for gen in range(1, self.num_generations + 1)"
ForGen ==
    /\ pc = "for_gen"
    /\ IF LoopContinues(gen, num_generations)
       THEN gen' = gen + 1 /\ pc' = "select_parents"
       ELSE gen' = gen /\ pc' = "final"
    /\ UNCHANGED <<config_vars, call_vars, generator_vars, sandbox_vars, patch_vars, heap, database, initial_population,
                   current_population, parents, offspring_population,
                   generation_tasks, eval_caller, eval_population,
                   evaluation_tasks, evaluated_programs, loop_i, final_best>>

\* One generation from select_parents to "await asyncio.gather(*generation_tasks)"
SelectParentsAndRequestOffspring ==
    /\ pc = "select_parents"
    /\ \E selected \in SelectParents(heap, current_population,
                                     num_parents_to_select, elitism_count) :
          /\ parents' = selected
          /\ IF selected = <<>>
             THEN /\ pc' = AfterNoParents
                  /\ UNCHANGED <<offspring_population, generation_tasks>>
             ELSE /\ offspring_population' = <<>>
                  /\ generation_tasks' =
                        GenerationTasks(population_size, selected, gen, <<>>)
                  /\ pc' = "gather_offspring"
    /\ UNCHANGED <<config_vars, call_vars, generator_vars, sandbox_vars, patch_vars, heap, database, gen, initial_population,
                   current_population, eval_caller, eval_population,
                   evaluation_tasks, evaluated_programs, loop_i, final_best>>

\* One generate_offspring task: code_generator.execute returns a text
OffspringReturns ==
    \E t \in 1..Len(generation_tasks) :
        /\ generation_tasks[t].state = "pending"
        /\ \E generated_code \in Texts :
              LET result == GenerateOffspring(heap, generation_tasks[t].parent, gen,
                                              generation_tasks[t].child_id,
                                              generated_code)
                  created == Len(heap) + Cardinality({u \in 1..Len(generation_tasks) :
                                             generation_tasks[u].result # None})
              IN /\ result # None => created < MaxPrograms
                 /\ generation_tasks' =
                       [generation_tasks EXCEPT ![t].state = "returned",
                                                ![t].result = result]
        /\ UNCHANGED <<config_vars, call_vars, generator_vars, sandbox_vars, patch_vars, heap, database, pc, gen, initial_population,
                       current_population, parents, offspring_population,
                       eval_caller, eval_population, evaluation_tasks,
                       evaluated_programs, loop_i, final_best>>

\* One generate_offspring task: the generative service fails and execute raises
OffspringRaises ==
    \E t \in 1..Len(generation_tasks) :
        /\ generation_tasks[t].state = "pending"
        /\ generation_tasks' = [generation_tasks EXCEPT ![t].state = "raised"]
        /\ UNCHANGED <<config_vars, call_vars, generator_vars, sandbox_vars, patch_vars, heap, database, pc, gen, initial_population,
                       current_population, parents, offspring_population,
                       eval_caller, eval_population, evaluation_tasks,
                       evaluated_programs, loop_i, final_best>>

\* asyncio.gather returns the results of the generation's offspring tasks
GatherOffspring ==
    /\ pc = "gather_offspring"
    /\ GatherComplete(generation_tasks)
    /\ loop_i' = 0
    /\ pc' = "collect_offspring"
    /\ UNCHANGED <<config_vars, call_vars, generator_vars, sandbox_vars, patch_vars, heap, database, gen, initial_population,
                   current_population, parents, offspring_population,
                   generation_tasks, eval_caller, eval_population,
                   evaluation_tasks, evaluated_programs, final_best>>

\* one iteration of "for result in generated_offspring_results"
CollectOffspring ==
    /\ pc = "collect_offspring"
    /\ loop_i < Len(generation_tasks)
    /\ LET task == generation_tasks[loop_i + 1]
       IN IF task.state = "raised" \/ task.result = None
          THEN UNCHANGED <<heap, offspring_population, database>>
          ELSE /\ heap' = Append(heap, task.result[1])
               /\ offspring_population' = Append(offspring_population, Len(heap) + 1)
               /\ database' = SaveProgram(database, heap', Len(heap) + 1)
    /\ loop_i' = loop_i + 1
    /\ UNCHANGED <<config_vars, call_vars, generator_vars, sandbox_vars, patch_vars, pc, gen, initial_population, current_population,
                   parents, generation_tasks, eval_caller, eval_population,
                   evaluation_tasks, evaluated_programs, final_best>>

\* the call with the commented-out line 122 in force: "offspring_population =
\* parents" when no offspring was generated, so the parents are passed to
\* evaluate_population
EvaluateOffspringReusesParents ==
    /\ pc = "collect_offspring"
    /\ loop_i = Len(generation_tasks)
    /\ eval_population' = IF offspring_population = <<>> THEN parents
                           ELSE offspring_population
    /\ offspring_population' = IF offspring_population = <<>> THEN parents
                                 ELSE offspring_population
    /\ eval_caller' = "offspring"
    /\ generation_tasks' = <<>>
    /\ loop_i' = 0
    /\ pc' = "evaluate_population"
    /\ UNCHANGED <<config_vars, call_vars, generator_vars, sandbox_vars, patch_vars, heap, database, gen, initial_population,
                   current_population, parents,
                   evaluation_tasks, evaluated_programs, final_best>>

\* the result loop is over: "offspring_population = await
\* self.evaluate_population(offspring_population)" is called
EvaluateOffspring ==
    /\ pc = "collect_offspring"
    /\ loop_i = Len(generation_tasks)
    /\ eval_population' = offspring_population
    /\ eval_caller' = "offspring"
    /\ generation_tasks' = <<>>
    /\ loop_i' = 0
    /\ pc' = "evaluate_population"
    /\ UNCHANGED <<config_vars, call_vars, generator_vars, sandbox_vars, patch_vars, heap, database, gen, initial_population,
                   current_population, parents, offspring_population,
                   evaluation_tasks, evaluated_programs, final_best>>

\* select_survivors and the end of the loop body
SelectSurvivorsStep ==
    /\ pc = "select_survivors"
    /\ current_population' = SelectSurvivors(heap, current_population,
                                             offspring_population, population_size)
    /\ pc' = IF current_population' = <<>> THEN AfterNoSurvivors ELSE "for_gen"
    /\ UNCHANGED <<config_vars, call_vars, generator_vars, sandbox_vars, patch_vars, heap, database, gen, initial_population, parents,
                   offspring_population, generation_tasks, eval_caller,
                   eval_population, evaluation_tasks, evaluated_programs, loop_i,
                   final_best>>

\* after the loop: final_best = get_best_programs(limit=1,
\* objective="correctness_score"), and the cycle returns it
ReturnFinalBest ==
    /\ pc = "final"
    /\ final_best' = GetBestPrograms(database, heap, 1, "correctness_score", "desc")
    /\ pc' = "done"
    /\ UNCHANGED <<config_vars, call_vars, generator_vars, sandbox_vars, patch_vars, heap, database, gen, initial_population,
                   current_population, parents, offspring_population,
                   generation_tasks, eval_caller, eval_population,
                   evaluation_tasks, evaluated_programs, loop_i>>

Next ==
    \/ InitGenerateCode
    \/ InitGenerateCodeRaises
    \/ InitSaveProgram
    \/ InitReturn
    \/ EvaluatePopulation
    \/ StartEvaluation
    \/ SandboxFails
    \/ SandboxReturns
    \/ EvaluationRaises
    \/ GatherEvaluations
    \/ CollectResult
    \/ ReturnInitialEvaluation
    \/ ReturnOffspringEvaluation
    \/ ForGen
    \/ SelectParentsAndRequestOffspring
    \/ OffspringReturns
    \/ OffspringRaises
    \/ GatherOffspring
    \/ CollectOffspring
    \/ EvaluateOffspring
    \/ SelectSurvivorsStep
    \/ ReturnFinalBest

Spec == Init /\ [][Next]_vars

\* The run under the scheduling the event loop gives: a task or a collaborator
\* call that can take a step eventually takes one.
FairSpec == Spec /\ WF_vars(Next)

\* ------------------------------------------- evaluate_population on its own

\* A program as an earlier evaluate_program call left it
EarlierEvaluated(p, ref, n_tests) ==
    IF EvaluateProgramSuspends(p, n_tests)
    THEN EvaluateProgramScore(EvaluateProgramBegin(p, ref, n_tests), ref,
                              [i \in 1..n_tests |-> "pass"], n_tests)
    ELSE EvaluateProgramBegin(p, ref, n_tests)

EarlierFailed(p, ref, n_tests) ==
    IF EvaluateProgramSuspends(p, n_tests)
    THEN EvaluateProgramExecutionError(EvaluateProgramBegin(p, ref, n_tests), ref,
                                       "ExecutionError:exit")
    ELSE EvaluateProgramBegin(p, ref, n_tests)

\* The populations evaluate_population is called with: new programs and
\* programs that an earlier call evaluated, in any mix
HarnessPopulations(n_tests) ==
    UNION {[1..n -> Codes \X {"new", "earlier_evaluated", "earlier_failed"}] :
              n \in 0..MaxHarnessPopulation}

HarnessProgram(choice, ref, n_tests) ==
    LET fresh == Program(InitialId(ref - 1), choice[1], 0, None, "unevaluated")
    IN IF choice[2] = "new" THEN fresh
       ELSE IF choice[2] = "earlier_evaluated" THEN EarlierEvaluated(fresh, ref, n_tests)
       ELSE EarlierFailed(fresh, ref, n_tests)

RECURSIVE SaveAll(_, _, _)
SaveAll(db, h, refs) ==
    IF refs = <<>> THEN db ELSE SaveAll(SaveProgram(db, h, Head(refs)), h, Tail(refs))

InitEval ==
    /\ num_tests \in 0..MaxTests
    /\ \E choices \in HarnessPopulations(num_tests) :
          /\ heap = [r \in 1..Len(choices) |-> HarnessProgram(choices[r], r, num_tests)]
          /\ eval_population = [r \in 1..Len(choices) |-> r]
          /\ population_size = Len(choices)
    /\ num_generations = 0
    /\ num_parents_to_select = population_size \div 2
    /\ database = SaveAll(<<>>, heap, eval_population)
    /\ pc = "evaluate_population"
    /\ gen = 0
    /\ initial_population = <<>>
    /\ current_population = <<>>
    /\ parents = <<>>
    /\ offspring_population = <<>>
    /\ generation_tasks = <<>>
    /\ eval_caller = "harness"
    /\ evaluation_tasks = <<>>
    /\ evaluated_programs = <<>>
    /\ loop_i = 0
    /\ final_best = <<>>
    /\ elitism_count = ELITISM_COUNT
    /\ SandboxIdle
    /\ PatchIdle
    /\ CallIdle
    /\ GeneratorIdle

\* evaluate_population returns to a caller that keeps what it got
ReturnToHarness ==
    /\ pc = "collect_results"
    /\ Len(evaluated_programs) = Len(evaluation_tasks)
    /\ eval_caller = "harness"
    /\ pc' = "harness_done"
    /\ UNCHANGED <<config_vars, call_vars, generator_vars, sandbox_vars, patch_vars, heap, database, gen, initial_population,
                   current_population, parents, offspring_population,
                   generation_tasks, eval_caller, eval_population,
                   evaluation_tasks, evaluated_programs, loop_i, final_best>>

NextEval ==
    \/ EvaluatePopulation
    \/ StartEvaluation
    \/ SandboxFails
    \/ SandboxReturns
    \/ EvaluationRaises
    \/ GatherEvaluations
    \/ CollectResult
    \/ ReturnToHarness

SpecEval == InitEval /\ [][NextEval]_vars

\* ------------------------------------------------ _apply_diff on its own

\* Texts are sequences of characters.
CodeChars == {"a", "b", "\n"}
BlockChars == CodeChars \cup {"\r"}

TextsUpTo(chars, n) == UNION {[1..k -> chars] : k \in 0..n}

\* str.strip('\n'): the text without its leading and trailing "\n" characters
StripNewlines(t) ==
    LET kept == {i \in 1..Len(t) : t[i] # "\n"}
    IN IF kept = {} THEN <<>>
       ELSE SubSeq(t, CHOOSE i \in kept : \A j \in kept : i <= j,
                      CHOOSE i \in kept : \A j \in kept : i >= j)

\* .replace('\r\n', '\n').replace('\r', '\n')
NormalizeLineEndings(t) ==
    LET kept == {i \in 1..Len(t) :
                    ~(t[i] = "\r" /\ i < Len(t) /\ t[i + 1] = "\n")}
        joined == SubSeqAt(t, kept)
    IN [i \in 1..Len(joined) |-> IF joined[i] = "\r" THEN "\n" ELSE joined[i]]

\* search occurs in text at position p
OccursAt(text, search, p) ==
    /\ p + Len(search) - 1 <= Len(text)
    /\ SubSeq(text, p, p + Len(search) - 1) = search

\* "search in text"
Contains(text, search) == \E p \in 1..(Len(text) + 1) : OccursAt(text, search, p)

\* text.replace(search, replacement) without the count: every occurrence,
\* left to right, not overlapping
RECURSIVE ReplaceAll(_, _, _)
ReplaceAll(text, search, replacement) ==
    IF search = <<>>
    THEN IF text = <<>> THEN replacement
         ELSE replacement \o <<Head(text)>> \o ReplaceAll(Tail(text), search, replacement)
    ELSE IF ~Contains(text, search) THEN text
    ELSE LET p == CHOOSE q \in 1..Len(text) :
                      /\ OccursAt(text, search, q)
                      /\ \A r \in 1..(q - 1) : ~OccursAt(text, search, r)
         IN SubSeq(text, 1, p - 1) \o replacement
               \o ReplaceAll(SubSeq(text, p + Len(search), Len(text)), search,
                             replacement)

\* text.replace(search, replacement, 1) for a search that occurs in text
ReplaceFirst(text, search, replacement) ==
    LET p == CHOOSE q \in 1..(Len(text) + 1) :
                 /\ OccursAt(text, search, q)
                 /\ \A r \in 1..(q - 1) : ~OccursAt(text, search, r)
    IN SubSeq(text, 1, p - 1) \o replacement
          \o SubSeq(text, p + Len(search), Len(text))

\* search_block_normalized and replace_block of one match
SearchBlock(block) == NormalizeLineEndings(StripNewlines(block.search))
ReplaceBlock(block) == StripNewlines(block.replace)

\* the body of "for match in diff_pattern.finditer(diff_text)" for one match
ApplyBlock(text, block) ==
    IF Contains(text, SearchBlock(block))
    THEN ReplaceFirst(text, SearchBlock(block), ReplaceBlock(block))
    ELSE text

\* a loop that gives up at the first SEARCH block it does not find
NextBlockIndexStopsOnMiss(text, block, i, n) ==
    IF Contains(text, SearchBlock(block)) THEN i + 1 ELSE n

\* the loop goes on to the next match, whether the block was found or not
NextBlockIndex(text, block, i, n) == i + 1

\* _apply_diff as a whole
RECURSIVE ApplyDiff(_, _)
ApplyDiff(text, blocks) ==
    IF blocks = <<>> THEN text
    ELSE ApplyDiff(ApplyBlock(text, Head(blocks)), Tail(blocks))

\* the blocks the pattern can capture from a diff text
DiffBlocks ==
    [search : TextsUpTo(BlockChars, MaxSearchLen),
     replace : TextsUpTo(CodeChars, MaxReplaceLen)]

\* _apply_diff(parent_code, diff_text) is called: modified_code = parent_code
InitPatch ==
    /\ parent_code \in TextsUpTo(CodeChars, MaxCodeLen)
    /\ diff_blocks \in UNION {[1..k -> DiffBlocks] : k \in 0..MaxBlocks}
    /\ modified_code = parent_code
    /\ block_i = 0
    /\ patch_pc = "for_match"
    /\ population_size = 0
    /\ num_generations = 0
    /\ num_parents_to_select = 0
    /\ num_tests = 0
    /\ heap = <<>>
    /\ database = <<>>
    /\ pc = "patch"
    /\ gen = 0
    /\ initial_population = <<>>
    /\ current_population = <<>>
    /\ parents = <<>>
    /\ offspring_population = <<>>
    /\ generation_tasks = <<>>
    /\ eval_caller = "none"
    /\ eval_population = <<>>
    /\ evaluation_tasks = <<>>
    /\ evaluated_programs = <<>>
    /\ loop_i = 0
    /\ final_best = <<>>
    /\ elitism_count = ELITISM_COUNT
    /\ SandboxIdle
    /\ CallIdle
    /\ GeneratorIdle

\* one iteration of the loop over the matches
ApplyNextBlock ==
    /\ patch_pc = "for_match"
    /\ block_i < Len(diff_blocks)
    /\ modified_code' = ApplyBlock(modified_code, diff_blocks[block_i + 1])
    /\ block_i' = NextBlockIndex(modified_code, diff_blocks[block_i + 1], block_i,
                                 Len(diff_blocks))
    /\ UNCHANGED <<config_vars, call_vars, generator_vars, heap, orchestrator_vars, sandbox_vars, patch_pc,
                   parent_code, diff_blocks>>

\* no match is left: "return modified_code"
ApplyDiffReturns ==
    /\ patch_pc = "for_match"
    /\ block_i = Len(diff_blocks)
    /\ patch_pc' = "returned"
    /\ UNCHANGED <<config_vars, call_vars, generator_vars, heap, orchestrator_vars, sandbox_vars, parent_code,
                   diff_blocks, block_i, modified_code>>

NextPatch ==
    \/ ApplyNextBlock
    \/ ApplyDiffReturns

SpecPatch == InitPatch /\ [][NextPatch]_vars

\* ------------------------------------------- evaluate_program on its own

\* One program, new or left by an earlier evaluation, and one call
\* evaluate_program(program, task) on it.
InitSandbox ==
    /\ num_tests \in 0..MaxTests
    /\ \E choice \in Codes \X {"new", "earlier_evaluated", "earlier_failed"} :
          heap = <<HarnessProgram(choice, 1, num_tests)>>
    /\ population_size = 1
    /\ num_generations = 0
    /\ num_parents_to_select = 0
    /\ database = <<>>
    /\ pc = "sandbox"
    /\ gen = 0
    /\ initial_population = <<>>
    /\ current_population = <<>>
    /\ parents = <<>>
    /\ offspring_population = <<>>
    /\ generation_tasks = <<>>
    /\ eval_caller = "harness"
    /\ eval_population = <<>>
    /\ evaluation_tasks = <<>>
    /\ evaluated_programs = <<>>
    /\ loop_i = 0
    /\ final_best = <<>>
    /\ ev_pc = "evaluate_program"
    /\ proc = NoProcess
    /\ children = "none"
    /\ temp_dir = NoTempDir
    /\ execution = NoExecution
    /\ elitism_count = ELITISM_COUNT
    /\ PatchIdle
    /\ CallIdle
    /\ GeneratorIdle

\* evaluate_program up to "await self._execute_code_safely(...)", or to its
\* return when there is a syntax error or no test case
EvaluateProgramCall ==
    /\ ev_pc = "evaluate_program"
    /\ heap' = [heap EXCEPT ![1] = EvaluateProgramBegin(@, 1, num_tests)]
    /\ ev_pc' = IF EvaluateProgramSuspends(heap[1], num_tests)
                THEN "execute_code_safely" ELSE "returned"
    /\ UNCHANGED <<config_vars, call_vars, generator_vars, orchestrator_vars, patch_vars, proc, children,
                   temp_dir, execution>>

\* _execute_code_safely: mkdtemp, the harness file is written, the process is
\* started and "await asyncio.wait_for(proc.communicate(), timeout)" begins
ExecuteStartsProcess ==
    /\ ev_pc = "execute_code_safely"
    /\ temp_dir' = [exists |-> TRUE, files |-> {"temp_script.py"}]
    /\ proc' = [NoProcess EXCEPT !.state = "running"]
    /\ ev_pc' = "communicate"
    /\ UNCHANGED <<config_vars, call_vars, generator_vars, orchestrator_vars, patch_vars, heap, children,
                   execution>>

\* mkdtemp or the write of the harness file raises: both stand before the
\* "try", so the exception leaves _execute_code_safely and evaluate_program
ExecuteSetupRaises ==
    /\ ev_pc = "execute_code_safely"
    /\ \E made \in BOOLEAN :
          temp_dir' = [exists |-> made, files |-> {}]
    /\ ev_pc' = "raised"
    /\ UNCHANGED <<config_vars, call_vars, generator_vars, orchestrator_vars, patch_vars, heap, proc,
                   children, execution>>

\* create_subprocess_exec raises: "except Exception", then "finally"
ExecuteSpawnRaises ==
    /\ ev_pc = "execute_code_safely"
    /\ temp_dir' = CleanupTemp([exists |-> TRUE, files |-> {"temp_script.py"}])
    /\ execution' = ExecuteCodeSafelyUnexpected
    /\ ev_pc' = "after_execute"
    /\ UNCHANGED <<config_vars, call_vars, generator_vars, orchestrator_vars, patch_vars, heap, proc, children>>

\* The candidate's code, running in the sandbox process, starts a process of
\* its own, which inherits the pipes or not.
CandidateStartsChild ==
    /\ proc.state = "running"
    /\ children = "none"
    /\ children' \in {"holds_pipes", "detached"}
    /\ UNCHANGED <<config_vars, call_vars, generator_vars, orchestrator_vars, patch_vars, heap, ev_pc, proc,
                   temp_dir, execution>>

\* The candidate's code writes a file into its working directory (cwd=temp_dir)
CandidateWritesFile ==
    /\ proc.state = "running"
    /\ "extra" \notin temp_dir.files
    /\ temp_dir' = [temp_dir EXCEPT !.files = @ \cup {"extra"}]
    /\ UNCHANGED <<config_vars, call_vars, generator_vars, orchestrator_vars, patch_vars, heap, ev_pc, proc,
                   children, execution>>

\* The candidate's child process ends by itself
ChildExits ==
    /\ children \in {"holds_pipes", "detached"}
    /\ children' = "exited"
    /\ UNCHANGED <<config_vars, call_vars, generator_vars, orchestrator_vars, patch_vars, heap, ev_pc, proc,
                   temp_dir, execution>>

\* The sandbox process ends by itself
ProcessExits ==
    /\ proc.state = "running"
    /\ proc' \in ProcessEndings(num_tests)
    /\ UNCHANGED <<config_vars, call_vars, generator_vars, orchestrator_vars, patch_vars, heap, ev_pc,
                   children, temp_dir, execution>>

\* communicate() returns (the process has ended and its pipes are at end of
\* file); the output is decoded and examined, then "finally"
CommunicateReturns ==
    /\ ev_pc = "communicate"
    /\ proc.state = "exited"
    /\ children # "holds_pipes"
    /\ execution' = ExecuteCodeSafelyReturn(proc)
    /\ temp_dir' = CleanupTemp(temp_dir)
    /\ ev_pc' = "after_execute"
    /\ UNCHANGED <<config_vars, call_vars, generator_vars, orchestrator_vars, patch_vars, heap, proc, children>>

\* wait_for gives up: asyncio.TimeoutError, "proc.kill()"
CommunicateTimesOut ==
    /\ ev_pc = "communicate"
    /\ proc' = IF proc.state = "running" THEN [proc EXCEPT !.state = "killed"] ELSE proc
    /\ ev_pc' = "wait_killed"
    /\ UNCHANGED <<config_vars, call_vars, generator_vars, orchestrator_vars, patch_vars, heap, children,
                   temp_dir, execution>>

\* "await proc.wait()" returns once the pipes are closed too; then the timeout
\* message is returned through "finally"
WaitKilledReturns ==
    /\ ev_pc = "wait_killed"
    /\ children # "holds_pipes"
    /\ execution' = ExecuteCodeSafelyTimeout
    /\ temp_dir' = CleanupTemp(temp_dir)
    /\ ev_pc' = "after_execute"
    /\ UNCHANGED <<config_vars, call_vars, generator_vars, orchestrator_vars, patch_vars, heap, proc, children>>

\* evaluate_program from "if execution_error:" to its return
EvaluateProgramResumes ==
    /\ ev_pc = "after_execute"
    /\ heap' = [heap EXCEPT ![1] =
                   IF execution.error # ""
                   THEN EvaluateProgramExecutionError(@, 1, execution.error)
                   ELSE EvaluateProgramScore(@, 1, execution.results.test_outputs,
                                             num_tests)]
    /\ ev_pc' = "returned"
    /\ UNCHANGED <<config_vars, call_vars, generator_vars, orchestrator_vars, patch_vars, proc, children,
                   temp_dir, execution>>

NextSandbox ==
    \/ EvaluateProgramCall
    \/ ExecuteStartsProcess
    \/ ExecuteSetupRaises
    \/ ExecuteSpawnRaises
    \/ CandidateStartsChild
    \/ CandidateWritesFile
    \/ ChildExits
    \/ ProcessExits
    \/ CommunicateReturns
    \/ CommunicateTimesOut
    \/ WaitKilledReturns
    \/ EvaluateProgramResumes

SpecSandbox == InitSandbox /\ [][NextSandbox]_vars

\* ------------------------------- select_parents, select_survivors on their own

\* the fitness a program in the pool can have
PoolCorrectness == {0, One}
PoolRuntimes == {50, Inf}
PoolGenerations == {0, 1}

\* Program i of the pool.  Its id is its own or, a collision, the id of the
\* first program.
PoolProgram(i, collides, correctness, runtime_ms, generation) ==
    [Program(IF collides THEN InitialId(0) ELSE InitialId(i - 1), "c1",
             generation, None, "evaluated")
     EXCEPT !.fitness_scores =
                DictSet(DictSet(EmptyDict, "correctness", correctness),
                        "runtime_ms", runtime_ms)]

\* The pools of up to max programs with generations from the given set; in a
\* pool with a collision the last program carries the id of the first.
Pools(max, generations) ==
    UNION {{[i \in 1..n |->
                PoolProgram(i, collision /\ n > 1 /\ i = n, f[i][1], f[i][2], f[i][3])] :
              f \in [1..n -> PoolCorrectness \X PoolRuntimes \X generations],
              collision \in BOOLEAN} : n \in 0..max}

\* One call of select_parents(population, num_parents) or of
\* select_survivors(current_population, offspring_population, population_size)
\* on a pool of programs.
InitSelection ==
    /\ heap \in Pools(MaxPool, PoolGenerations)
    /\ \/ /\ pc = "select_parents_call"
          /\ current_population = [i \in 1..Len(heap) |-> i]
          /\ offspring_population = <<>>
          /\ num_parents_to_select \in 0..MaxPool
          /\ elitism_count \in 0..MaxElitism
          /\ population_size = 0
       \/ /\ pc = "select_survivors_call"
          /\ \E m \in 0..Len(heap) :
                /\ current_population = [i \in 1..m |-> i]
                /\ offspring_population = [i \in 1..(Len(heap) - m) |-> m + i]
          /\ num_parents_to_select = 0
          /\ elitism_count = ELITISM_COUNT
          /\ population_size \in 0..MaxPool
    /\ num_generations = 0
    /\ num_tests = 0
    /\ database = <<>>
    /\ gen = 0
    /\ initial_population = <<>>
    /\ parents = <<>>
    /\ generation_tasks = <<>>
    /\ eval_caller = "none"
    /\ eval_population = <<>>
    /\ evaluation_tasks = <<>>
    /\ evaluated_programs = <<>>
    /\ loop_i = 0
    /\ final_best = <<>>
    /\ SandboxIdle
    /\ PatchIdle
    /\ CallIdle
    /\ GeneratorIdle

\* select_parents(current_population, num_parents_to_select) returns
SelectParentsCall ==
    /\ pc = "select_parents_call"
    /\ parents' \in SelectParents(heap, current_population, num_parents_to_select,
                                  elitism_count)
    /\ pc' = "select_parents_returned"
    /\ UNCHANGED <<config_vars, call_vars, generator_vars, sandbox_vars, patch_vars,
                   heap, database, gen, initial_population, current_population,
                   offspring_population, generation_tasks, eval_caller,
                   eval_population, evaluation_tasks, evaluated_programs, loop_i,
                   final_best>>

\* select_survivors(current_population, offspring_population, population_size)
\* returns
SelectSurvivorsCall ==
    /\ pc = "select_survivors_call"
    /\ survivors' = SelectSurvivors(heap, current_population, offspring_population,
                                    population_size)
    /\ pc' = "select_survivors_returned"
    /\ UNCHANGED <<config_vars, generator_vars, sandbox_vars, patch_vars, heap,
                   orchestrator_vars_but_pc, query>>

NextSelection ==
    \/ SelectParentsCall
    \/ SelectSurvivorsCall

SpecSelection == InitSelection /\ [][NextSelection]_vars

\* --------------------------------------------- the database on its own

\* the calls get_best_programs(task_id, limit, objective, sort_order) looked at;
\* "correctness_score" is the objective manage_evolutionary_cycle passes
Queries ==
    [limit : 0..(MaxPool + 1),
     objective : {"correctness", "runtime_ms", "correctness_score"},
     sort_order : {"asc", "desc"}]

\* An empty store, programs to save into it one after the other, and one
\* get_best_programs call.
InitDatabase ==
    /\ heap \in Pools(MaxPool, {0})
    /\ query \in Queries
    /\ database = <<>>
    /\ pc = "database"
    /\ loop_i = 0
    /\ survivors = <<>>
    /\ population_size = 0
    /\ num_generations = 0
    /\ num_parents_to_select = 0
    /\ num_tests = 0
    /\ elitism_count = ELITISM_COUNT
    /\ gen = 0
    /\ initial_population = <<>>
    /\ current_population = <<>>
    /\ parents = <<>>
    /\ offspring_population = <<>>
    /\ generation_tasks = <<>>
    /\ eval_caller = "none"
    /\ eval_population = <<>>
    /\ evaluation_tasks = <<>>
    /\ evaluated_programs = <<>>
    /\ final_best = <<>>
    /\ SandboxIdle
    /\ PatchIdle
    /\ GeneratorIdle

\* await database.save_program(program), for the next program
SaveProgramCall ==
    /\ pc = "database"
    /\ loop_i < Len(heap)
    /\ database' = SaveProgram(database, heap, loop_i + 1)
    /\ loop_i' = loop_i + 1
    /\ UNCHANGED <<config_vars, call_vars, generator_vars, sandbox_vars, patch_vars,
                   heap, pc, gen, initial_population, current_population, parents,
                   offspring_population, generation_tasks, eval_caller,
                   eval_population, evaluation_tasks, evaluated_programs,
                   final_best>>

\* await database.get_best_programs(task_id, limit, objective, sort_order)
GetBestProgramsCall ==
    /\ pc = "database"
    /\ final_best' = GetBestPrograms(database, heap, query.limit, query.objective,
                                     query.sort_order)
    /\ pc' = "get_best_programs_returned"
    /\ UNCHANGED <<config_vars, call_vars, generator_vars, sandbox_vars, patch_vars,
                   heap, database, gen, initial_population, current_population,
                   parents, offspring_population, generation_tasks, eval_caller,
                   eval_population, evaluation_tasks, evaluated_programs, loop_i>>

NextDatabase ==
    \/ SaveProgramCall
    \/ GetBestProgramsCall

SpecDatabase == InitDatabase /\ [][NextDatabase]_vars

\* ------------------------------------------------ generate_code on its own

\* How a request to the generative service can end: status 200 with a JSON
\* body, a 5xx or a 4xx status, aiohttp.ClientError or asyncio.TimeoutError
\* (no answer), or any other exception (a body that is not JSON).
RequestOutcomes == {"ok", "server_error", "client_error", "network_error", "unexpected"}

\* "delay" stays what it was
NextDelayConstant(d) == d

\* "delay *= 2"
NextDelay(d) == d * 2

\* One generate_code call, up to the loop "for attempt in range(retries)".
InitGenerate ==
    /\ retries \in 0..API_MAX_RETRIES
    /\ delay = API_RETRY_DELAY_SECONDS
    /\ attempt = 0
    /\ responses = <<>>
    /\ sleeps = <<>>
    /\ generate_pc = "for_attempt"
    /\ pc = "generate_code"
    /\ population_size = 0
    /\ num_generations = 0
    /\ num_parents_to_select = 0
    /\ num_tests = 0
    /\ elitism_count = ELITISM_COUNT
    /\ heap = <<>>
    /\ database = <<>>
    /\ gen = 0
    /\ initial_population = <<>>
    /\ current_population = <<>>
    /\ parents = <<>>
    /\ offspring_population = <<>>
    /\ generation_tasks = <<>>
    /\ eval_caller = "none"
    /\ eval_population = <<>>
    /\ evaluation_tasks = <<>>
    /\ evaluated_programs = <<>>
    /\ loop_i = 0
    /\ final_best = <<>>
    /\ SandboxIdle
    /\ PatchIdle
    /\ CallIdle

\* the request of this attempt is answered with status 200 and a JSON body:
\* generate_code returns the text
RequestSucceeds ==
    /\ generate_pc = "for_attempt"
    /\ attempt < retries
    /\ responses' = Append(responses, "ok")
    /\ generate_pc' = "returned"
    /\ UNCHANGED <<config_vars, call_vars, sandbox_vars, patch_vars, heap,
                   orchestrator_vars, attempt, delay, retries, sleeps>>

\* the answer has a status other than 200: "if attempt < retries - 1" the
\* call goes to sleep, else it raises "Ollama request failed after ..."
RequestFailsWithStatus ==
    /\ generate_pc = "for_attempt"
    /\ attempt < retries
    /\ \E status \in {"server_error", "client_error"} :
          responses' = Append(responses, status)
    /\ generate_pc' = IF attempt < retries - 1 THEN "sleep" ELSE "raised"
    /\ UNCHANGED <<config_vars, call_vars, sandbox_vars, patch_vars, heap,
                   orchestrator_vars, attempt, delay, retries, sleeps>>

\* the request raises aiohttp.ClientError or asyncio.TimeoutError: the same
\* test on attempt, and on the last attempt the exception is re-raised
RequestFailsWithNetworkError ==
    /\ generate_pc = "for_attempt"
    /\ attempt < retries
    /\ responses' = Append(responses, "network_error")
    /\ generate_pc' = IF attempt < retries - 1 THEN "sleep" ELSE "raised"
    /\ UNCHANGED <<config_vars, call_vars, sandbox_vars, patch_vars, heap,
                   orchestrator_vars, attempt, delay, retries, sleeps>>

\* any other exception: "except Exception as e: ... raise"
RequestFailsUnexpectedly ==
    /\ generate_pc = "for_attempt"
    /\ attempt < retries
    /\ responses' = Append(responses, "unexpected")
    /\ generate_pc' = "raised"
    /\ UNCHANGED <<config_vars, call_vars, sandbox_vars, patch_vars, heap,
                   orchestrator_vars, attempt, delay, retries, sleeps>>

\* "await asyncio.sleep(delay)" returns, "delay *= 2", and the loop goes on
\* with the next attempt
SleepReturns ==
    /\ generate_pc = "sleep"
    /\ sleeps' = Append(sleeps, delay)
    /\ delay' = NextDelay(delay)
    /\ attempt' = attempt + 1
    /\ generate_pc' = "for_attempt"
    /\ UNCHANGED <<config_vars, call_vars, sandbox_vars, patch_vars, heap,
                   orchestrator_vars, retries, responses>>

\* range(retries) is used up without a return or a raise: 'return ""'
RetriesExhausted ==
    /\ generate_pc = "for_attempt"
    /\ attempt >= retries
    /\ generate_pc' = "returned"
    /\ UNCHANGED <<config_vars, call_vars, sandbox_vars, patch_vars, heap,
                   orchestrator_vars, attempt, delay, retries, responses, sleeps>>

NextGenerate ==
    \/ RequestSucceeds
    \/ RequestFailsWithStatus
    \/ RequestFailsWithNetworkError
    \/ RequestFailsUnexpectedly
    \/ SleepReturns
    \/ RetriesExhausted

SpecGenerate == InitGenerate /\ [][NextGenerate]_vars

\* ------------------------------------------------------------- claims

Finished == {"evaluated", "failed_evaluation"}

\* (correctness descending, runtime_ms ascending): x is strictly better than y
Better(h, x, y) == TupleGt(ParentKey(h, x), ParentKey(h, y))

\* C1: every Candidate created during one run has an id that differs from the
\* id of every other Candidate created in that run.
C1_UniqueIds ==
    \A a, b \in DOMAIN heap : a # b => heap[a].id # heap[b].id

\* C2: when the run is over, the returned candidate is one with the highest
\* correctness among the stored candidates, ties broken by the lowest
\* runtime_ms; the result is empty only when nothing was stored.
C2_ReturnsBest ==
    pc = "done" =>
        IF database = <<>> THEN final_best = <<>>
        ELSE /\ Len(final_best) = 1
             /\ \A k \in 1..Len(database) :
                    ~Better(heap, database[k].ref, final_best[1])

\* C3: selection (select_parents of the next generation, select_survivors of
\* this one) and the offspring requests that follow it never run while an
\* evaluation task is still unfinished.
C3_SelectionAfterEvaluations ==
    pc \in {"for_gen", "select_parents", "gather_offspring", "collect_offspring",
            "select_survivors", "final", "done"}
        => \A k \in 1..Len(evaluation_tasks) :
               evaluation_tasks[k].state \in {"returned", "raised"}

C3_Witness ==
    /\ pc = "select_parents"
    /\ gen = 2
    /\ \E r \in DOMAIN heap : heap[r].generation = 1 /\ heap[r].status \in Finished
    /\ \E r \in DOMAIN heap :
          heap[r].generation = 0 /\ heap[r].status = "failed_evaluation"

\* the number of times r occurs in the list s
Occurrences(s, r) == Cardinality({i \in 1..Len(s) : s[i] = r})

\* C4: the list evaluate_population returns holds exactly the candidates whose
\* evaluation was dispatched, each once, and a candidate whose evaluation
\* raised is among them with status failed_evaluation.
C4_ReturnsDispatched ==
    pc = "harness_done" =>
        /\ \A r \in DOMAIN heap :
               Occurrences(evaluated_programs, r)
                   = Occurrences([k \in 1..Len(evaluation_tasks) |->
                                     evaluation_tasks[k].prog], r)
        /\ \A k \in 1..Len(evaluation_tasks) :
               evaluation_tasks[k].state = "raised" =>
                   heap[evaluation_tasks[k].prog].status = "failed_evaluation"

\* C5: the candidate that is marked failed_evaluation with the error text of a
\* raised evaluation is the candidate whose evaluation raised; every other
\* candidate keeps the outcome of its own evaluation.
C5_FailureGoesToItsCandidate ==
    pc = "harness_done" =>
        \A r \in DOMAIN heap :
            LET raised == \E k \in 1..Len(evaluation_tasks) :
                              /\ evaluation_tasks[k].prog = r
                              /\ evaluation_tasks[k].state = "raised"
                dispatched == \E k \in 1..Len(evaluation_tasks) :
                                  evaluation_tasks[k].prog = r
            IN /\ \A i \in 1..Len(heap[r].errors) :
                      heap[r].errors[i].kind = "Exception" =>
                          raised /\ heap[r].errors[i].of = r
               /\ raised => /\ heap[r].status = "failed_evaluation"
                            /\ Diagnostic("Exception", r) \in Range(heap[r].errors)
               /\ ~dispatched => heap[r].status = "evaluated"
               /\ dispatched /\ ~raised => heap[r].status \in Finished

\* C6: a failure of the generative service for one candidate never aborts the
\* run.
C6_NeverAborts == pc # "aborted"

\* C7: the loop variable never exceeds num_generations, and offspring are
\* requested only for a non-empty parent list.
C7_GenerationBudget ==
    /\ gen <= num_generations
    /\ generation_tasks # <<>> => parents # <<>>
    /\ pc \in {"gather_offspring", "collect_offspring"} => parents # <<>>

C7_Witness ==
    /\ pc = "gather_offspring"
    /\ gen = 2
    /\ gen = num_generations
    /\ Len(generation_tasks) = 2

\* C8: when select_parents returns no parents, or select_survivors returns an
\* empty population, the next position is the final best-candidate query; from
\* there the run only returns: no selection, no offspring, no evaluation.
C8_EarlyExit ==
    [][/\ (pc = "select_parents" /\ parents' = <<>>) => pc' = "final"
       /\ (pc = "select_survivors" /\ current_population' = <<>>) => pc' = "final"
       /\ pc = "final" => /\ pc' = "done"
                          /\ UNCHANGED <<heap, database, gen, parents,
                                         current_population, generation_tasks,
                                         evaluation_tasks>>
       /\ pc # "done"]_vars

C8_Witness ==
    /\ pc = "done"
    /\ parents = <<>>
    /\ gen = 1
    /\ num_generations = 2
    /\ current_population # <<>>

\* C9: every run eventually reaches Completed (the position after the final
\* best-candidate query), whatever the collaborators answer.
C9_Terminates == <>(pc = "done")

\* C10: every candidate with status failed_evaluation has correctness 0 and a
\* non-empty diagnostics list.
C10_FailedMeansZero ==
    \A r \in DOMAIN heap :
        heap[r].status = "failed_evaluation" =>
            /\ "correctness" \in DOMAIN heap[r].fitness_scores
            /\ heap[r].fitness_scores["correctness"] = 0
            /\ heap[r].errors # <<>>

\* C11: every candidate with status evaluated or failed_evaluation has a
\* correctness value, between 0.0 and 1.0, also the candidate whose evaluation
\* task raised and that evaluate_population marked failed_evaluation.
C11_CorrectnessDefined ==
    \A r \in DOMAIN heap :
        heap[r].status \in Finished =>
            /\ "correctness" \in DOMAIN heap[r].fitness_scores
            /\ heap[r].fitness_scores["correctness"] \in 0..One

C11_Witness ==
    \E r \in DOMAIN heap :
        /\ heap[r].status = "failed_evaluation"
        /\ Diagnostic("Exception", r) \in Range(heap[r].errors)
        /\ heap[r].fitness_scores["correctness"] = 0

\* the followed evaluate_program call has returned after the harness ran to
\* its end in a process that exited with code 0 and printed its record
RanToCompletion ==
    /\ ev_pc = "returned"
    /\ proc.state = "exited"
    /\ execution.error = ""

\* the test cases the harness record reports as passed
PassedCases ==
    {i \in DOMAIN execution.results.test_outputs :
        execution.results.test_outputs[i] = "pass"}

\* C12: a candidate whose harness ran to completion but that fails some test
\* case ends with status evaluated, correctness passed/T below 1.0 and a
\* non-empty diagnostics list; failed_evaluation comes only from a syntax,
\* execution or timeout failure.
C12_PartialFailureIsEvaluated ==
    /\ (RanToCompletion /\ Cardinality(PassedCases) < num_tests) =>
           /\ heap[1].status = "evaluated"
           /\ heap[1].fitness_scores["correctness"]
                  = (Cardinality(PassedCases) * One) \div num_tests
           /\ heap[1].fitness_scores["correctness"] < One
           /\ heap[1].errors # <<>>
    /\ (ev_pc = "returned" /\ heap[1].status = "failed_evaluation") =>
           ~RanToCompletion

\* C13: for a candidate whose source has a syntax error, evaluate_program
\* returns with status failed_evaluation, correctness 0 and exactly one
\* diagnostic, the syntax error; no temporary directory is made and no sandbox
\* process is started.
C13_SyntaxErrorNotExecuted ==
    ~SyntaxOk(heap[1].code) =>
        /\ ev_pc \in {"evaluate_program", "returned"}
        /\ proc = NoProcess
        /\ temp_dir = NoTempDir
        /\ ev_pc = "returned" =>
               /\ heap[1].status = "failed_evaluation"
               /\ heap[1].fitness_scores["correctness"] = 0
               /\ heap[1].errors = <<Diagnostic("SyntaxError", 1)>>

C13_Witness ==
    /\ ~SyntaxOk(heap[1].code)
    /\ num_tests = 2
    /\ ev_pc = "returned"
    /\ heap[1].status = "failed_evaluation"

\* the followed call has returned after communicate() returned for a process
\* that exited non-zero or did not print a record that parses
ProcessLevelFailure ==
    /\ ev_pc = "returned"
    /\ proc.state = "exited"
    /\ execution.error # "ExecutionError:timeout"
    /\ proc.returncode # 0 \/ proc.stdout # "record"

TimedOut ==
    /\ ev_pc = "returned"
    /\ execution.error = "ExecutionError:timeout"

\* C15: after a timeout the candidate has status failed_evaluation,
\* correctness 0, runtime_ms equal to the timeout and a diagnostic that names
\* the timeout.
C15_TimeoutOutcome ==
    TimedOut =>
        /\ heap[1].status = "failed_evaluation"
        /\ heap[1].fitness_scores["correctness"] = 0
        /\ heap[1].fitness_scores["runtime_ms"] = EVALUATION_TIMEOUT_SECONDS * 1000
        /\ Diagnostic("ExecutionError:timeout", 1) \in Range(heap[1].errors)

\* C16: once an evaluation that timed out has returned, neither the sandbox
\* process nor a process it started is running.
C16_NoProcessLeftAfterTimeout ==
    TimedOut =>
        /\ proc.state # "running"
        /\ children \notin {"holds_pipes", "detached"}

\* C17: for a candidate that passed the static check and executed without a
\* process-level failure, correctness is passed/T, and 1.0 when the task has
\* no test cases.
C17_CorrectnessIsPassedOverTotal ==
    (ev_pc = "returned" /\ SyntaxOk(heap[1].code)) =>
        /\ num_tests = 0 => heap[1].fitness_scores["correctness"] = One
        /\ RanToCompletion =>
               heap[1].fitness_scores["correctness"]
                   = (Cardinality(PassedCases) * One) \div num_tests

\* C18: after a successful execution runtime_ms is the mean elapsed time of
\* the cases that executed without error, and the +infinity sentinel only
\* when no case executed.
C18_RuntimeIsMeanOfExecutedCases ==
    RanToCompletion =>
        heap[1].fitness_scores["runtime_ms"]
            = IF execution.results.average_runtime_ms = None THEN Inf
              ELSE execution.results.average_runtime_ms[1]

\* the block the loop of _apply_diff handles next
NextBlock == diff_blocks[block_i + 1]

\* C19: a block whose search text is absent from the current text does not
\* make _apply_diff fail: the text stays as it is and the loop goes on to the
\* next block; when every search text is absent from the original, or there
\* is no block, the result is the original text.
C19_AbsentSearchSkipped ==
    /\ [](patch_pc = "returned" =>
             /\ block_i = Len(diff_blocks)
             /\ (\A k \in 1..Len(diff_blocks) :
                     ~Contains(parent_code, SearchBlock(diff_blocks[k])))
                   => modified_code = parent_code)
    /\ [][(/\ patch_pc = "for_match"
            /\ block_i < Len(diff_blocks)
            /\ ~Contains(modified_code, SearchBlock(NextBlock)))
           => /\ modified_code' = modified_code
              /\ block_i' = block_i + 1
              /\ patch_pc' = "for_match"]_vars

C19_Witness ==
    /\ patch_pc = "returned"
    /\ Len(diff_blocks) = 2
    /\ ~Contains(parent_code, SearchBlock(diff_blocks[1]))
    /\ Contains(parent_code, SearchBlock(diff_blocks[2]))
    /\ modified_code # parent_code

\* after is before with the first occurrence of search, and only that one,
\* replaced by replacement
FirstOccurrenceReplaced(before, after, search, replacement) ==
    \E p \in 1..(Len(before) + 1) :
        /\ OccursAt(before, search, p)
        /\ \A q \in 1..(p - 1) : ~OccursAt(before, search, q)
        /\ after = SubSeq(before, 1, p - 1) \o replacement
                       \o SubSeq(before, p + Len(search), Len(before))

\* C20: the blocks are applied in the order of the script, each replacing
\* only the first occurrence of its search text in the text the earlier
\* blocks produced; so a block B whose search text exists only after block A
\* was applied takes effect in the script A, B and is skipped in B, A.
C20_FirstOccurrenceInOrder ==
    /\ [][(/\ patch_pc = "for_match"
            /\ block_i < Len(diff_blocks)
            /\ Contains(modified_code, SearchBlock(NextBlock)))
           => /\ FirstOccurrenceReplaced(modified_code, modified_code',
                                         SearchBlock(NextBlock), ReplaceBlock(NextBlock))
              /\ block_i' = block_i + 1]_vars
    /\ [](LET A == diff_blocks[1]
              B == diff_blocks[2]
          IN (/\ patch_pc = "returned"
              /\ Len(diff_blocks) = 2
              /\ ~Contains(parent_code, SearchBlock(B))
              /\ Contains(ApplyBlock(parent_code, A), SearchBlock(B)))
             => /\ FirstOccurrenceReplaced(ApplyBlock(parent_code, A), modified_code,
                                           SearchBlock(B), ReplaceBlock(B))
                /\ ApplyDiff(parent_code, <<B, A>>) = ApplyBlock(parent_code, A))

C20_Witness ==
    /\ patch_pc = "returned"
    /\ Len(diff_blocks) = 2
    /\ ~Contains(parent_code, SearchBlock(diff_blocks[2]))
    /\ Contains(ApplyBlock(parent_code, diff_blocks[1]), SearchBlock(diff_blocks[2]))
    /\ modified_code # ApplyDiff(parent_code, <<diff_blocks[2], diff_blocks[1]>>)
    /\ Len(parent_code) = 3

\* C21: select_parents returns at most k parents, whatever the population, k
\* and the elitism count are, and the empty list for an empty population or
\* k = 0.
C21_AtMostK ==
    pc = "select_parents_returned" =>
        /\ Len(parents) <= num_parents_to_select
        /\ (current_population = <<>> \/ num_parents_to_select = 0) => parents = <<>>

\* C22: with k >= |population| (k = |population| included) select_parents
\* returns every program of the population exactly once.
C22_WholePopulation ==
    (pc = "select_parents_returned"
        /\ num_parents_to_select >= Len(current_population)) =>
        /\ Len(parents) = Len(current_population)
        /\ \A r \in Range(current_population) : Occurrences(parents, r) = 1

\* C23: for a non-empty population, elitism count >= 1 and k >= 1, the parents
\* include a program that no program of the population beats under
\* (correctness descending, runtime_ms ascending), whatever is drawn.
C23_IncludesBest ==
    (pc = "select_parents_returned" /\ current_population # <<>>
        /\ elitism_count >= 1 /\ num_parents_to_select >= 1) =>
        \E i \in 1..Len(parents) :
            \A r \in Range(current_population) : ~Better(heap, r, parents[i])

\* select_parents went through elitism and the roulette, and the roulette
\* drew a program that is not a best one
C23_Witness ==
    /\ pc = "select_parents_returned"
    /\ elitism_count >= 1
    /\ num_parents_to_select >= 2
    /\ num_parents_to_select <= Len(current_population)
    /\ Len(parents) = num_parents_to_select
    /\ \E r \in Range(current_population) : Better(heap, r, parents[2])

\* two programs with exactly equal correctness and runtime_ms
FitnessTie(h, x, y) == ParentKey(h, x) = ParentKey(h, y)

\* C24: select_survivors orders by correctness descending, then runtime_ms
\* ascending, and on an exact tie of both puts the higher generation first;
\* on a tie at the cut-off the newer program is the one that survives.
C24_NewerFirstOnTie ==
    pc = "select_survivors_returned" =>
        /\ \A i, j \in 1..Len(survivors) :
              i < j =>
                 /\ ~Better(heap, survivors[j], survivors[i])
                 /\ FitnessTie(heap, survivors[i], survivors[j]) =>
                       heap[survivors[i]].generation >= heap[survivors[j]].generation
        /\ \A r \in Range(current_population \o offspring_population) :
              \A i \in 1..Len(survivors) :
                 (/\ \A k \in 1..Len(survivors) : heap[survivors[k]].id # heap[r].id
                  /\ FitnessTie(heap, r, survivors[i])) =>
                     heap[survivors[i]].generation >= heap[r].generation

\* the ids of the programs of a list
Ids(h, s) == {h[s[i]].id : i \in 1..Len(s)}

\* C25: select_survivors returns min(size, distinct ids of the pool)
\* programs of the pool, no id twice, never more than size, in sorted order
\* and none of them beaten by a program whose id was left out; from an empty
\* offspring list they are programs of current, from an empty pool none.
C25_TopSizeDistinctIds ==
    pc = "select_survivors_returned" =>
        LET pool == current_population \o offspring_population
            distinct == Cardinality(Ids(heap, pool))
        IN /\ Len(survivors) =
                 (IF population_size < distinct THEN population_size ELSE distinct)
           /\ Len(survivors) <= population_size
           /\ \A i, j \in 1..Len(survivors) :
                 i # j => heap[survivors[i]].id # heap[survivors[j]].id
           /\ Range(survivors) \subseteq Range(pool)
           /\ \A i, j \in 1..Len(survivors) :
                 i < j => ~Better(heap, survivors[j], survivors[i])
           /\ \A r \in Range(pool) :
                 heap[r].id \notin Ids(heap, survivors) =>
                    \A i \in 1..Len(survivors) : ~Better(heap, r, survivors[i])
           /\ offspring_population = <<>> =>
                 Range(survivors) \subseteq Range(current_population)
           /\ pool = <<>> => survivors = <<>>

\* select_survivors cut a pool in which an id occurs twice, and kept two
\* programs
C25_Witness ==
    /\ pc = "select_survivors_returned"
    /\ LET pool == current_population \o offspring_population
       IN /\ Cardinality(Ids(heap, pool)) < Len(pool)
          /\ offspring_population # <<>>
          /\ Len(survivors) = 2
          /\ population_size = 2
          /\ Cardinality(Ids(heap, pool)) = 2

\* the offspring requests among the first n that returned a Candidate
Contributing(tasks, n) ==
    {t \in 1..n : tasks[t].state = "returned" /\ tasks[t].result # None}

\* C26: an offspring request whose text equals the parent's code, or that
\* raised, adds no Candidate to the offspring population and none to the
\* store; every sibling request completes, and the offspring population is,
\* in order, what the other requests returned.
C26_DiscardedOffspringOnly ==
    /\ [](pc = "collect_offspring" =>
            LET done == Contributing(generation_tasks, loop_i)
                kept == SubSeqAt([t \in 1..Len(generation_tasks) |-> t], done)
            IN /\ GatherComplete(generation_tasks)
               /\ Len(offspring_population) = Cardinality(done)
               /\ \A k \in 1..Len(offspring_population) :
                     LET task == generation_tasks[kept[k]]
                         child == heap[offspring_population[k]]
                     IN /\ child.code = task.result[1].code
                        /\ child.code # heap[task.parent].code
                        /\ child.parent_id = heap[task.parent].id
                        /\ child.generation = gen
               /\ \A e \in 1..Len(database) :
                     heap[database[e].ref].generation = gen =>
                        database[e].ref \in Range(offspring_population))
    /\ [][(pc = "collect_offspring" /\ loop_i' = loop_i + 1
              /\ loop_i + 1 \notin Contributing(generation_tasks, loop_i + 1)) =>
             /\ offspring_population' = offspring_population
             /\ database' = database
             /\ heap' = heap]_vars

\* of two requests of a generation the first was discarded (it raised, or it
\* returned nothing) and the second contributed its offspring
C26_Witness ==
    /\ pc = "collect_offspring"
    /\ Len(generation_tasks) = 2
    /\ loop_i = 2
    /\ generation_tasks[1].result = None
    /\ generation_tasks[2].result # None
    /\ Len(offspring_population) = 1
    /\ \E e \in 1..Len(database) : database[e].ref = offspring_population[1]

\* C27: when evaluate_population returns, every candidate it returns is the
\* record stored under its id, with the result of its own evaluation: the task
\* whose result it is evaluated that candidate and no other.
C27_StoredOwnResult ==
    (pc = "collect_results" /\ Len(evaluated_programs) = Len(evaluation_tasks)) =>
        \A i \in 1..Len(evaluated_programs) :
            /\ evaluated_programs[i] = evaluation_tasks[i].prog
            /\ \E e \in 1..Len(database) :
                  /\ database[e].id = heap[evaluated_programs[i]].id
                  /\ database[e].ref = evaluated_programs[i]

\* the value get_best_programs sorts a stored program by
Metric(h, r, objective) ==
    IF objective = "correctness" THEN Get(h[r].fitness_scores, "correctness", -One)
    ELSE Get(h[r].fitness_scores, "runtime_ms", Inf)

\* x does not come after y in the requested direction
InOrder(h, x, y, objective, sort_order) ==
    IF sort_order = "desc" THEN Metric(h, x, objective) >= Metric(h, y, objective)
    ELSE Metric(h, x, objective) <= Metric(h, y, objective)

Transient == {"server_error", "network_error"}

RECURSIVE Doubled(_, _)
Doubled(d, n) == IF n = 0 THEN d ELSE 2 * Doubled(d, n - 1)

\* C29: one generate_code call sends at most API_MAX_RETRIES requests; after a
\* transient failure that is not the last allowed attempt it waits, the waits
\* being d, 2d, 4d, ..., and tries again; no request follows a success; when
\* the last allowed attempt fails the call raises.
C29_BoundedBackoff ==
    /\ Len(responses) <= retries
    /\ retries <= API_MAX_RETRIES
    /\ \A i \in 1..Len(sleeps) : sleeps[i] = Doubled(API_RETRY_DELAY_SECONDS, i - 1)
    /\ \A i \in 1..Len(responses) :
          /\ responses[i] = "ok" => (i = Len(responses) /\ generate_pc = "returned")
          /\ (responses[i] \in Transient /\ i < retries) =>
                \/ i < Len(responses) /\ Len(sleeps) >= i
                \/ i = Len(responses) /\ generate_pc = "sleep" /\ Len(sleeps) = i - 1
                \/ i = Len(responses) /\ generate_pc = "for_attempt" /\ Len(sleeps) = i
          /\ (responses[i] \in Transient /\ i = retries) =>
                (generate_pc = "raised" /\ Len(sleeps) = i - 1)
    /\ (generate_pc = "returned" /\ retries > 0) =>
          (responses # <<>> /\ responses[Len(responses)] = "ok")

\* two transient failures, two waits, and the third request succeeded
C29_Witness ==
    /\ generate_pc = "returned"
    /\ responses = <<"server_error", "network_error", "ok">>
    /\ sleeps = <<API_RETRY_DELAY_SECONDS, 2 * API_RETRY_DELAY_SECONDS>>
    /\ retries = API_MAX_RETRIES

\* C30: a non-transient failure (a 4xx answer) is raised to the caller when it
\* first occurs: no request and no wait follows it.
C30_NonTransientRaisedAtOnce ==
    \A i \in 1..Len(responses) :
        responses[i] = "client_error" =>
            /\ i = Len(responses)
            /\ generate_pc = "raised"
            /\ Len(sleeps) = i - 1

\* the programs whose evaluation the tasks of an evaluate_population call run
Dispatched(tasks) == {tasks[k].prog : k \in 1..Len(tasks)}

\* C31: during a run every evaluation is dispatched for a candidate whose
\* status is unevaluated, a candidate is dispatched by one task only, and a
\* status only moves unevaluated -> evaluating -> {evaluated,
\* failed_evaluation}; the survivors carried over from earlier generations are
\* not dispatched again.
C31_EvaluatedOnce ==
    [][/\ (pc = "evaluate_population" /\ pc' = "gather_evaluations") =>
              /\ \A k \in 1..Len(evaluation_tasks') :
                     heap[evaluation_tasks'[k].prog].status = "unevaluated"
              /\ Cardinality(Dispatched(evaluation_tasks')) = Len(evaluation_tasks')
              /\ eval_caller = "offspring" =>
                     Dispatched(evaluation_tasks') \cap Range(current_population) = {}
       /\ \A r \in DOMAIN heap :
              /\ heap[r].status \in Finished => heap'[r].status = heap[r].status
              /\ heap[r].status = "evaluating" => heap'[r].status # "unevaluated"
              /\ heap'[r].status # heap[r].status =>
                     \/ pc = "collect_results"
                     \/ \E k \in 1..Len(evaluation_tasks) :
                            /\ evaluation_tasks[k].prog = r
                            /\ evaluation_tasks[k].state \in {"created", "running"}
                            /\ evaluation_tasks'[k].state # evaluation_tasks[k].state]_vars

C31_Witness ==
    /\ pc = "gather_evaluations"
    /\ eval_caller = "offspring"
    /\ gen = 2
    /\ evaluation_tasks # <<>>
    /\ \E r \in Range(current_population) :
          /\ heap[r].status = "failed_evaluation"
          /\ heap[r].generation = 0
    /\ \E r \in Range(current_population) : heap[r].generation = 1

\* C32: a candidate that has reached evaluated or failed_evaluation is not
\* changed by any later step of the run (code, fitness, diagnostics, status,
\* id, generation, parent_id all stay); a candidate added by a mutation is a
\* new one with the generation of the loop (>= 1), the id of one of the
\* selected parents as parent_id, and status unevaluated.
C32_CopyOnMutate ==
    [][/\ \A r \in DOMAIN heap :
              heap[r].status \in Finished =>
                  r \in DOMAIN heap' /\ heap'[r] = heap[r]
       /\ pc = "collect_offspring" =>
              \A r \in (DOMAIN heap') \ (DOMAIN heap) :
                  /\ heap'[r].generation = gen
                  /\ heap'[r].generation >= 1
                  /\ \E q \in Range(parents) :
                         /\ heap'[r].parent_id = heap[q].id
                         /\ heap'[r].code # heap[q].code
                  /\ heap'[r].status = "unevaluated"
                  /\ heap'[r].fitness_scores = EmptyDict
                  /\ heap'[r].errors = <<>>]_vars

C32_Witness ==
    /\ pc = "select_survivors"
    /\ \E q, r, x \in DOMAIN heap :
          /\ heap[q].generation = 0
          /\ heap[q].status \in Finished
          /\ heap[r].generation = 1
          /\ heap[r].parent_id = heap[q].id
          /\ heap[r].status = "evaluated"
          /\ x # r
          /\ heap[x].generation = 1
          /\ Diagnostic("Exception", x) \in Range(heap[x].errors)

\* the store holds the program r under r's id
Stored(db, h, r) == \E k \in 1..Len(db) : db[k].id = h[r].id /\ db[k].ref = r

\* C33: when initialize_population returns, its list holds exactly
\* population_size candidates, different ones with the ids prog0..prog(n-1),
\* each with generation 0, no parent_id, status unevaluated and no fitness or
\* diagnostics; whenever the request for an initial candidate is issued, every
\* candidate created before it is in the store; no run creates more than
\* population_size candidates of generation 0.
C33_InitialPopulation ==
    /\ [](Cardinality({r \in DOMAIN heap : heap[r].generation = 0}) <= population_size)
    /\ [][/\ (pc = "initialize_population" /\ pc' = "evaluate_population") =>
                 /\ Len(initial_population) = population_size
                 /\ eval_population' = initial_population
                 /\ \A i \in 1..Len(initial_population) :
                        LET program == heap[initial_population[i]]
                        IN /\ program.id = InitialId(i - 1)
                           /\ program.generation = 0
                           /\ program.parent_id = None
                           /\ program.status = "unevaluated"
                           /\ program.fitness_scores = EmptyDict
                           /\ program.errors = <<>>
                           /\ Stored(database, heap, initial_population[i])
          /\ (pc = "initialize_population" /\ pc' = "init_save") =>
                 /\ \A r \in Range(initial_population) : Stored(database, heap, r)
                 /\ Len(database) = Len(initial_population)
                 /\ Len(initial_population') = Len(initial_population) + 1]_vars

C33_Witness ==
    /\ pc = "evaluate_population"
    /\ eval_caller = "initial"
    /\ population_size = 2
    /\ Len(eval_population) = 2
    /\ Len(database) = 2
    /\ \A r \in Range(eval_population) : heap[r].status = "unevaluated"

\* this step is the return of task k's evaluation after its sandbox run timed out
TimeoutReturns(k) ==
    /\ evaluation_tasks[k].state = "running"
    /\ evaluation_tasks'[k].state = "returned"
    /\ Diagnostic("ExecutionError:timeout", evaluation_tasks[k].prog)
           \in Range(heap'[evaluation_tasks[k].prog].errors)

\* C34: the step in which one candidate's evaluation returns after a timeout
\* changes that candidate and its task only: every sibling task keeps its
\* state, every other candidate its record, and the orchestrator its position;
\* when the results are collected every task has ended, every task that
\* returned has given its candidate a final status with diagnostics of its
\* own evaluation only, and from there the run goes on to selection.
C34_TimeoutCancelsOnlyItself ==
    /\ [][\A k \in 1..Len(evaluation_tasks) :
              TimeoutReturns(k) =>
                  /\ \A j \in 1..Len(evaluation_tasks) :
                         j # k => evaluation_tasks'[j] = evaluation_tasks[j]
                  /\ \A r \in DOMAIN heap :
                         r # evaluation_tasks[k].prog => heap'[r] = heap[r]
                  /\ UNCHANGED <<pc, gen, database, current_population,
                                 offspring_population, eval_population,
                                 evaluated_programs, final_best>>]_vars
    /\ [](pc = "collect_results" =>
             \A k \in 1..Len(evaluation_tasks) :
                 /\ evaluation_tasks[k].state \in {"returned", "raised"}
                 /\ evaluation_tasks[k].state = "returned" =>
                        LET program == heap[evaluation_tasks[k].prog]
                        IN /\ program.status \in Finished
                           /\ \A i \in 1..Len(program.errors) :
                                  program.errors[i].of = evaluation_tasks[k].prog)
    /\ [][(pc = "collect_results" /\ pc' # pc) =>
              /\ pc' = IF eval_caller = "offspring" THEN "select_survivors"
                       ELSE "for_gen"
              /\ Len(evaluated_programs) = Len(eval_population)]_vars

C34_Witness ==
    /\ pc = "select_survivors"
    /\ Len(offspring_population) = 2
    /\ \E x, y \in Range(offspring_population) :
          /\ heap[x].errors = <<Diagnostic("ExecutionError:timeout", x)>>
          /\ heap[x].status = "failed_evaluation"
          /\ heap[y].status = "evaluated"
          /\ heap[y].fitness_scores["correctness"] = One
          /\ heap[y].fitness_scores["passed_tests"] = 2

\* C35: whenever _execute_code_safely has returned (normally, with an
\* execution error, after a timeout or after an unexpected exception) the
\* temporary directory of the evaluation and the files in it no longer exist,
\* also when the candidate's code wrote a file of its own into it.
C35_TempRemovedOnReturn ==
    ev_pc \in {"after_execute", "returned"} =>
        /\ ~temp_dir.exists
        /\ temp_dir.files = {}

\* C36: the current population (empty before the initial evaluation, then the
\* evaluated initial population, then each generation's survivors) never has
\* more than population_size members, and no two of its members share an id.
C36_PopulationBounded ==
    /\ Len(current_population) <= population_size
    /\ \A i, j \in 1..Len(current_population) :
           i # j => heap[current_population[i]].id # heap[current_population[j]].id

C36_Witness ==
    /\ pc = "for_gen"
    /\ gen = 1
    /\ population_size = 2
    /\ Len(current_population) = 2
    /\ Len(offspring_population) = 2
    /\ heap[offspring_population[1]].id = heap[offspring_population[2]].id
    /\ offspring_population[1] \in Range(current_population)
    /\ heap[current_population[2]].generation = 0

\* the correctness select_survivors sorts a program by
Correctness(h, r) == Get(h[r].fitness_scores, "correctness", 0)

\* the highest correctness in a population, 0 for an empty one
MaxCorrectness(h, population) ==
    IF population = <<>> THEN 0
    ELSE CHOOSE c \in {Correctness(h, r) : r \in Range(population)} :
             \A r \in Range(population) : Correctness(h, r) <= c

\* C37: when population_size >= 1, the survivors of a generation hold a
\* candidate whose correctness is the highest of the merged pool of current
\* population and offspring; over the steps of a run the highest correctness
\* in the current population never decreases.
C37_BestSurvives ==
    [][/\ (pc = "select_survivors" /\ population_size >= 1) =>
              MaxCorrectness(heap, current_population')
                  = MaxCorrectness(heap, current_population \o offspring_population)
       /\ MaxCorrectness(heap', current_population')
              >= MaxCorrectness(heap, current_population)]_vars

C37_Witness ==
    /\ pc = "for_gen"
    /\ gen = 1
    /\ Len(current_population) = 2
    /\ heap[current_population[1]].generation = 0
    /\ Correctness(heap, current_population[1]) = One
    /\ heap[current_population[2]].generation = 1
    /\ Correctness(heap, current_population[2]) = Half
    /\ \E r \in DOMAIN heap :
          /\ heap[r].generation = 0
          /\ r \notin Range(current_population)
          /\ Correctness(heap, r) = 0

\* C38: at the call of select_parents every candidate of the current
\* population, and at the call of select_survivors every candidate of the
\* current population and of the offspring population, has status evaluated
\* or failed_evaluation.
C38_SelectionOnFinished ==
    /\ pc = "select_parents" =>
           \A r \in Range(current_population) : heap[r].status \in Finished
    /\ pc = "select_survivors" =>
           \A r \in Range(current_population \o offspring_population) :
               heap[r].status \in Finished

C38_Witness ==
    /\ pc = "select_survivors"
    /\ gen = 1
    /\ Len(current_population) = 2
    /\ Len(offspring_population) = 2
    /\ \E r \in Range(offspring_population) :
          /\ heap[r].status = "failed_evaluation"
          /\ Diagnostic("Exception", r) \in Range(heap[r].errors)
    /\ \E r \in Range(offspring_population) : heap[r].status = "evaluated"

====
